---- MODULE Spec2Model ----
(***************************************************************************)
(* Sehati Kafe: the relational store (users, categories, menu_items,       *)
(* transactions, transaction_items), the request handlers of the server    *)
(* and the request boundary (zod input schemas of the tRPC router).        *)
(*                                                                         *)
(* Numbers.  A JavaScript number that carries money or a quantity is an    *)
(* integer count of thousandths (1.005 is 1005), so that inputs finer than *)
(* a cent exist.  A numeric(10,2) column keeps hundredths: writing a       *)
(* number into it rounds it (half away from zero).  Amounts stay far below  *)
(* the ten digits of the column and the 32 bits of an integer column.      *)
(*                                                                         *)
(* Requests.  Every request is served by a worker (Procs); a handler that  *)
(* issues several statements is one action per statement, so that other    *)
(* requests interleave between them.  Statements inside db.transaction     *)
(* write to the worker's private buffer tx[p] until the commit.            *)
(*                                                                         *)
(* Client.  The cart and the payment dialog of the PosSystem component are *)
(* the record pos; the server's handlers leave it alone.                   *)
(***************************************************************************)
EXTENDS Integers, Sequences, FiniteSets, TLC

VARIABLES
    users,             \* rows of usersTable
    categories,        \* rows of categoriesTable
    menuItems,         \* rows of menuItemsTable
    transactions,      \* committed rows of transactionsTable
    transactionItems,  \* committed rows of transactionItemsTable
    seq,               \* the serial sequences behind the id columns
    now,               \* the server clock
    pc,                \* per worker: the statement its handler is at
    req,               \* per worker: the request it is serving
    tx,                \* per worker: rows written inside its open db.transaction
    res,               \* per worker: the response of the handler
    loc,               \* per worker: what its handler has read so far
    writes,            \* writing requests admitted so far
    asked,             \* per allocated transaction id: the number of lines asked for
    pos                \* the state of the PosSystem component of a terminal

vars == <<users, categories, menuItems, transactions, transactionItems,
          seq, now, pc, req, tx, res, loc, writes, asked, pos>>

store == <<users, categories, menuItems, transactions, transactionItems>>

----------------------------------------------------------------------------
(* Bounds of the model *)

\* Requests that write (sales, catalog, accounts) admitted in one run
MaxWrites == 2
DayLen == 2

\* The clock runs through the first day into the second.
MaxClock == DayLen

Procs == {"w1", "w2"}

----------------------------------------------------------------------------
(* Numbers and numeric(10,2) columns *)

Cent == 10
Unit == Cent * 100

Null == "null"

Abs(v) == IF v < 0 THEN -v ELSE v

IsInt(v) == v % Unit = 0

RoundDown(v) == IF v >= 0 THEN v - (v % Cent) ELSE -(Abs(v) - (Abs(v) % Cent))

RoundUp(v) == IF v % Cent = 0 THEN v
              ELSE IF v >= 0 THEN RoundDown(v) + Cent ELSE RoundDown(v) - Cent

IsTie(v) == (Abs(v) % Cent) * 2 = Cent

\* PostgreSQL's numeric input of the decimal text of v at scale 2
ToNumeric(v) == IF (Abs(v) % Cent) * 2 >= Cent THEN RoundUp(v) ELSE RoundDown(v)

\* The result of a floating point operation whose exact value is a half cent
\* lies a few ulps on either side of it, and its text is rounded accordingly.
ComputedToNumeric(v) == IF IsTie(v) THEN {RoundDown(v), RoundUp(v)} ELSE {ToNumeric(v)}

\* parseFloat of a numeric(10,2) text
parseFloat(v) == v

OrNull(s) == IF s = "" THEN Null ELSE s

----------------------------------------------------------------------------
(* The request boundary: createTransactionInputSchema *)

paymentMethodSchema == {"CASH", "CARD", "DIGITAL_WALLET", "BANK_TRANSFER"}

transactionItemInputSchema(item) ==
    /\ IsInt(item.quantity)
    /\ item.quantity > 0
    /\ item.unit_price > 0

\* The schema without .min(1) on items
createTransactionInputSchema_AnyLength(input) ==
    /\ \A k \in 1..Len(input.items) : transactionItemInputSchema(input.items[k])
    /\ input.subtotal > 0
    /\ input.tax_amount >= 0
    /\ input.discount_amount >= 0
    /\ input.total_amount > 0
    /\ input.payment_method \in paymentMethodSchema
    /\ input.payment_received > 0

createTransactionInputSchema(input) ==
    /\ Len(input.items) >= 1
    /\ \A k \in 1..Len(input.items) : transactionItemInputSchema(input.items[k])
    /\ input.subtotal > 0
    /\ input.tax_amount >= 0
    /\ input.discount_amount >= 0
    /\ input.total_amount > 0
    /\ input.payment_method \in paymentMethodSchema
    /\ input.payment_received > 0

----------------------------------------------------------------------------
(* Workers *)

NoReq == [op |-> "none"]
NoRes == [status |-> "none"]
NoTx == [start |-> 0, header |-> {}, items |-> {}]
NoLoc == [read |-> "none"]

Failure(msg) == [status |-> "error", error |-> msg]
Success(v) == [status |-> "ok", null |-> FALSE, value |-> v]
ReturnNull == [status |-> "ok", null |-> TRUE]

Idle(p) == pc[p] = "idle"

\* The handler of p has returned or thrown: the response is in res[p].
Finish(p, r) ==
    /\ pc' = [pc EXCEPT ![p] = "done"]
    /\ res' = [res EXCEPT ![p] = r]
    /\ tx' = [tx EXCEPT ![p] = NoTx]
    /\ loc' = [loc EXCEPT ![p] = NoLoc]

\* Between two statements of a handler: nothing is returned yet.
Continue(p, at) ==
    /\ pc' = [pc EXCEPT ![p] = at]
    /\ UNCHANGED <<tx, res, loc>>

\* A writing request is admitted while the budget lasts.
Admit(p, r) ==
    /\ Idle(p)
    /\ writes < MaxWrites
    /\ writes' = writes + 1
    /\ req' = [req EXCEPT ![p] = r]

\* The response leaves the server and the worker is free again.
Respond(p) ==
    /\ pc[p] = "done"
    /\ pc' = [pc EXCEPT ![p] = "idle"]
    /\ req' = [req EXCEPT ![p] = NoReq]
    /\ res' = [res EXCEPT ![p] = NoRes]
    /\ UNCHANGED <<store, seq, now, pos, tx, loc, writes, asked>>

Tick ==
    /\ now < MaxClock
    /\ now' = now + 1
    /\ UNCHANGED <<store, seq, pc, req, tx, res, loc, writes, asked, pos>>

----------------------------------------------------------------------------
(* createTransaction *)

Ids(rows) == {r.id : r \in rows}

ItemsOf(rows, id) == {r \in rows : r.transaction_id = id}

changeAmount(input) == input.payment_received - input.total_amount

RECURSIVE SumLines(_, _)
SumLines(items, k) ==
    IF k = 0 THEN 0
    ELSE SumLines(items, k - 1) + (items[k].quantity \div Unit) * items[k].unit_price

\* A header whose subtotal and total the server works out from the lines
HeaderRows_Recomputed(input, id, start) ==
    LET sub == SumLines(input.items, Len(input.items))
        total == sub + input.tax_amount - input.discount_amount
    IN {[id |-> id,
         transaction_date |-> start,
         customer_name |-> OrNull(input.customer_name),
         customer_phone |-> OrNull(input.customer_phone),
         subtotal |-> ToNumeric(sub),
         tax_amount |-> ToNumeric(input.tax_amount),
         discount_amount |-> ToNumeric(input.discount_amount),
         total_amount |-> ToNumeric(total),
         payment_method |-> input.payment_method,
         payment_received |-> ToNumeric(input.payment_received),
         change_amount |-> c,
         notes |-> OrNull(input.notes),
         cashier_id |-> input.cashier_id,
         created_at |-> start] : c \in ComputedToNumeric(input.payment_received - total)}

\* The row of tx.insert(transactionsTable).values(...).returning()
HeaderRows(input, id, start) ==
    {[id |-> id,
      transaction_date |-> start,
      customer_name |-> OrNull(input.customer_name),
      customer_phone |-> OrNull(input.customer_phone),
      subtotal |-> ToNumeric(input.subtotal),
      tax_amount |-> ToNumeric(input.tax_amount),
      discount_amount |-> ToNumeric(input.discount_amount),
      total_amount |-> ToNumeric(input.total_amount),
      payment_method |-> input.payment_method,
      payment_received |-> ToNumeric(input.payment_received),
      change_amount |-> c,
      notes |-> OrNull(input.notes),
      cashier_id |-> input.cashier_id,
      created_at |-> start] : c \in ComputedToNumeric(changeAmount(input))}

\* A line total that leaves the quantity out
lineTotal_IgnoreQuantity(item) == item.unit_price

lineTotal(item) == (item.quantity \div Unit) * item.unit_price

\* (item.quantity * item.unit_price).toString() as the column stores it; the
\* product by 1 is the price itself, with the text the price has
total_price(item) ==
    IF item.quantity = Unit THEN {ToNumeric(lineTotal(item))}
    ELSE ComputedToNumeric(lineTotal(item))

\* The stored totals of the first k lines, line by line
RECURSIVE StoredTotals(_, _)
StoredTotals(items, k) ==
    IF k = 0 THEN {<< >>}
    ELSE {Append(f, t) : f \in StoredTotals(items, k - 1), t \in total_price(items[k])}

\* itemsToInsert: one row per line of the request, ids from the sequence
ItemRowSets(input, txId, firstId) ==
    LET n == Len(input.items)
    IN {{[id |-> firstId + k - 1,
           transaction_id |-> txId,
           menu_item_id |-> input.items[k].menu_item_id,
           quantity |-> input.items[k].quantity \div Unit,
           unit_price |-> ToNumeric(input.items[k].unit_price),
           total_price |-> f[k],
           notes |-> OrNull(input.items[k].notes)] : k \in 1..n} :
        f \in StoredTotals(input.items, n)}

\* The router parses the input; a request that fails the schema never reaches
\* the handler.
createTransaction_Reject(p, input) ==
    /\ Idle(p)
    /\ ~createTransactionInputSchema(input)
    /\ req' = [req EXCEPT ![p] = [op |-> "createTransaction", input |-> input]]
    /\ Finish(p, Failure("validation"))
    /\ UNCHANGED <<store, seq, now, pos, writes, asked>>

\* db.transaction(async (tx) => ...): BEGIN
createTransaction_Begin(p, input) ==
    /\ createTransactionInputSchema(input)
    /\ Admit(p, [op |-> "createTransaction", input |-> input])
    /\ pc' = [pc EXCEPT ![p] = "tx_header"]
    /\ tx' = [tx EXCEPT ![p] = [start |-> now, header |-> {}, items |-> {}]]
    /\ UNCHANGED <<store, seq, now, pos, res, loc, asked>>

\* The header written with db.insert instead of tx.insert: outside the transaction
createTransaction_InsertHeader_Autocommit(p) ==
    /\ pc[p] = "tx_header"
    /\ LET input == req[p].input
           id == seq.transactions + 1
       IN /\ seq' = [seq EXCEPT !.transactions = id]
          /\ asked' = [k \in DOMAIN asked \cup {id} |->
                         IF k = id THEN Len(input.items) ELSE asked[k]]
          /\ IF input.cashier_id \in Ids(users)
             THEN /\ \E h \in HeaderRows(input, id, tx[p].start) :
                        /\ tx' = [tx EXCEPT ![p].header = {h}]
                        /\ transactions' = transactions \cup {h}
                  /\ pc' = [pc EXCEPT ![p] = "tx_items"]
                  /\ UNCHANGED <<res, loc>>
             ELSE /\ Finish(p, Failure("persistence"))
                  /\ UNCHANGED transactions
    /\ UNCHANGED <<users, categories, menuItems, transactionItems, now, pos, req, writes>>

\* A header insert into a table whose cashier_id references nothing
createTransaction_InsertHeader_NoForeignKey(p) ==
    /\ pc[p] = "tx_header"
    /\ LET input == req[p].input
           id == seq.transactions + 1
       IN /\ seq' = [seq EXCEPT !.transactions = id]
          /\ asked' = [k \in DOMAIN asked \cup {id} |->
                         IF k = id THEN Len(input.items) ELSE asked[k]]
          /\ \E h \in HeaderRows(input, id, tx[p].start) :
                tx' = [tx EXCEPT ![p].header = {h}]
          /\ pc' = [pc EXCEPT ![p] = "tx_items"]
          /\ UNCHANGED <<res, loc>>
    /\ UNCHANGED <<store, now, pos, req, writes>>

\* tx.insert(transactionsTable): the id is drawn from the sequence whether or
\* not the row is kept
createTransaction_InsertHeader(p) ==
    /\ pc[p] = "tx_header"
    /\ LET input == req[p].input
           id == seq.transactions + 1
       IN /\ seq' = [seq EXCEPT !.transactions = id]
          /\ asked' = [k \in DOMAIN asked \cup {id} |->
                         IF k = id THEN Len(input.items) ELSE asked[k]]
          /\ IF input.cashier_id \in Ids(users)
             THEN /\ \E h \in HeaderRows(input, id, tx[p].start) :
                        tx' = [tx EXCEPT ![p].header = {h}]
                  /\ pc' = [pc EXCEPT ![p] = "tx_items"]
                  /\ UNCHANGED <<res, loc>>
             ELSE Finish(p, Failure("persistence"))
    /\ UNCHANGED <<store, now, pos, req, writes>>

\* The item insert failing after the header was committed on its own
createTransaction_InsertItems_KeepHeader(p) ==
    /\ pc[p] = "tx_items"
    /\ LET input == req[p].input
           n == Len(input.items)
           txId == (CHOOSE h \in tx[p].header : TRUE).id
       IN /\ seq' = [seq EXCEPT !.items = @ + n]
          /\ IF \A k \in 1..n : input.items[k].menu_item_id \in Ids(menuItems)
             THEN /\ \E rows \in ItemRowSets(input, txId, seq.items + 1) :
                        tx' = [tx EXCEPT ![p].items = rows]
                  /\ pc' = [pc EXCEPT ![p] = "tx_commit"]
                  /\ UNCHANGED <<res, loc, transactions>>
             ELSE /\ Finish(p, Failure("persistence"))
                  /\ transactions' = transactions \cup tx[p].header
    /\ UNCHANGED <<users, categories, menuItems, transactionItems, now, pos, req, writes, asked>>

\* tx.insert(transactionItemsTable).values(itemsToInsert)
createTransaction_InsertItems(p) ==
    /\ pc[p] = "tx_items"
    /\ LET input == req[p].input
           n == Len(input.items)
           txId == (CHOOSE h \in tx[p].header : TRUE).id
       IN /\ seq' = [seq EXCEPT !.items = @ + n]
          /\ IF \A k \in 1..n : input.items[k].menu_item_id \in Ids(menuItems)
             THEN /\ \E rows \in ItemRowSets(input, txId, seq.items + 1) :
                        tx' = [tx EXCEPT ![p].items = rows]
                  /\ pc' = [pc EXCEPT ![p] = "tx_commit"]
                  /\ UNCHANGED <<res, loc>>
             ELSE Finish(p, Failure("persistence"))
    /\ UNCHANGED <<store, now, pos, req, writes, asked>>

\* COMMIT, then the header converted back to numbers
createTransaction_Commit(p) ==
    /\ pc[p] = "tx_commit"
    /\ transactions' = transactions \cup tx[p].header
    /\ transactionItems' = transactionItems \cup tx[p].items
    /\ Finish(p, Success(CHOOSE h \in tx[p].header : TRUE))
    /\ UNCHANGED <<users, categories, menuItems, seq, now, pos, req, writes, asked>>

\* The store fails the open transaction: ROLLBACK, the error is rethrown
createTransaction_Abort(p) ==
    /\ pc[p] \in {"tx_header", "tx_items", "tx_commit"}
    /\ Finish(p, Failure("persistence"))
    /\ UNCHANGED <<store, seq, now, pos, req, writes, asked>>


----------------------------------------------------------------------------
(* Accounts: loginUser, createUser, initializeDefaultAdmin *)

ByUsername(name) == {u \in users : u.username = name}

\* A login that answers with the whole row of the user
loginUser_Response_WholeRow(us, input, t) ==
    LET found == {u \in us : u.username = input.username}
    IN IF found = {} THEN Failure("Invalid username or password")
       ELSE LET user == CHOOSE u \in found : TRUE
            IN IF ~user.is_active THEN Failure("User account is inactive")
               ELSE IF user.password # input.password
                    THEN Failure("Invalid username or password")
                    ELSE Success([user |-> user, token |-> <<"jwt", user.id, t>>])

\* What loginUser answers on the user rows us at time t
loginUser_Response(us, input, t) ==
    LET found == {u \in us : u.username = input.username}
    IN IF found = {} THEN Failure("Invalid username or password")
       ELSE LET user == CHOOSE u \in found : TRUE
            IN IF ~user.is_active THEN Failure("User account is inactive")
               ELSE IF user.password # input.password
                    THEN Failure("Invalid username or password")
                    ELSE Success([user |-> [id |-> user.id,
                                            username |-> user.username,
                                            role |-> user.role,
                                            full_name |-> user.full_name,
                                            is_active |-> user.is_active],
                                  token |-> <<"jwt", user.id, t>>])

loginUser(p, input) ==
    /\ Idle(p)
    /\ req' = [req EXCEPT ![p] = [op |-> "loginUser", input |-> input]]
    /\ Finish(p, loginUser_Response(users, input, now))
    /\ UNCHANGED <<store, seq, now, pos, writes, asked>>

\* db.select().from(usersTable).where(eq(username))
createUser_Check(p, input) ==
    /\ Admit(p, [op |-> "createUser", input |-> input])
    /\ IF ByUsername(input.username) # {}
       THEN Finish(p, Failure("Username already exists"))
       ELSE Continue(p, "user_insert")
    /\ UNCHANGED <<store, seq, now, pos, asked>>

\* An insert into a users table without the unique constraint
InsertUser_NoConstraint(p, row) ==
    /\ seq' = [seq EXCEPT !.users = @ + 1]
    /\ users' = users \cup {[row EXCEPT !.id = seq.users + 1]}
    /\ Finish(p, Success([row EXCEPT !.id = seq.users + 1]))
    /\ UNCHANGED <<categories, menuItems, transactions, transactionItems,
                   now, pos, req, writes, asked>>

\* db.insert(usersTable): username is unique, the id is drawn either way
InsertUser(p, row) ==
    /\ seq' = [seq EXCEPT !.users = @ + 1]
    /\ IF ByUsername(row.username) # {}
       THEN /\ Finish(p, Failure("persistence"))
            /\ UNCHANGED users
       ELSE /\ users' = users \cup {[row EXCEPT !.id = seq.users + 1]}
            /\ Finish(p, Success([row EXCEPT !.id = seq.users + 1]))
    /\ UNCHANGED <<categories, menuItems, transactions, transactionItems,
                   now, pos, req, writes, asked>>

createUser_Insert(p) ==
    /\ pc[p] = "user_insert"
    /\ req[p].op = "createUser"
    /\ InsertUser(p, [id |-> 0,
                      username |-> req[p].input.username,
                      password |-> req[p].input.password,
                      role |-> req[p].input.role,
                      full_name |-> req[p].input.full_name,
                      is_active |-> TRUE])

initializeDefaultAdmin_Check(p) ==
    /\ Admit(p, [op |-> "initializeDefaultAdmin"])
    /\ IF ByUsername("admin") # {}
       THEN Finish(p, ReturnNull)
       ELSE Continue(p, "user_insert")
    /\ UNCHANGED <<store, seq, now, pos, asked>>

initializeDefaultAdmin_Insert(p) ==
    /\ pc[p] = "user_insert"
    /\ req[p].op = "initializeDefaultAdmin"
    /\ InsertUser(p, [id |-> 0,
                      username |-> "admin",
                      password |-> "admin123",
                      role |-> "ADMIN",
                      full_name |-> "System Administrator",
                      is_active |-> TRUE])

----------------------------------------------------------------------------
(* Categories.  An optional field of an update is a set: empty when absent. *)

ById(rows, id) == {r \in rows : r.id = id}

Given(opt) == opt # {}

Val(opt) == CHOOSE v \in opt : TRUE

createCategory(p, input) ==
    /\ Admit(p, [op |-> "createCategory", input |-> input])
    /\ LET row == [id |-> seq.categories + 1, name |-> input.name, is_active |-> TRUE]
       IN /\ categories' = categories \cup {row}
          /\ seq' = [seq EXCEPT !.categories = @ + 1]
          /\ Finish(p, Success(row))
    /\ UNCHANGED <<users, menuItems, transactions, transactionItems, now, pos, asked>>

updateCategory(p, input) ==
    /\ Admit(p, [op |-> "updateCategory", input |-> input])
    /\ LET old == ById(categories, input.id)
           new == {[r EXCEPT !.name = IF Given(input.name) THEN Val(input.name) ELSE @,
                             !.is_active = IF Given(input.is_active)
                                           THEN Val(input.is_active) ELSE @] : r \in old}
       IN /\ categories' = (categories \ old) \cup new
          /\ IF new = {} THEN Finish(p, Failure("Category not found"))
             ELSE Finish(p, Success(Val(new)))
    /\ UNCHANGED <<users, menuItems, transactions, transactionItems, seq, now, pos, asked>>

\* A delete that reports success whatever it found
deleteCategory_AlwaysTrue(p, id) ==
    /\ Admit(p, [op |-> "deleteCategory", id |-> id])
    /\ LET old == ById(categories, id)
           new == {[r EXCEPT !.is_active = FALSE] : r \in old}
       IN /\ categories' = (categories \ old) \cup new
          /\ Finish(p, Success(TRUE))
    /\ UNCHANGED <<users, menuItems, transactions, transactionItems, seq, now, pos, asked>>

deleteCategory(p, id) ==
    /\ Admit(p, [op |-> "deleteCategory", id |-> id])
    /\ LET old == ById(categories, id)
           new == {[r EXCEPT !.is_active = FALSE] : r \in old}
       IN /\ categories' = (categories \ old) \cup new
          /\ Finish(p, Success(new # {}))
    /\ UNCHANGED <<users, menuItems, transactions, transactionItems, seq, now, pos, asked>>

\* A listing that returns every category row
getCategories_Everything(p) ==
    /\ Idle(p)
    /\ req' = [req EXCEPT ![p] = [op |-> "getCategories"]]
    /\ Finish(p, Success(categories))
    /\ UNCHANGED <<store, seq, now, pos, writes, asked>>

getCategories(p) ==
    /\ Idle(p)
    /\ req' = [req EXCEPT ![p] = [op |-> "getCategories"]]
    /\ Finish(p, Success({c \in categories : c.is_active}))
    /\ UNCHANGED <<store, seq, now, pos, writes, asked>>

getCategoryById(p, id) ==
    /\ Idle(p)
    /\ req' = [req EXCEPT ![p] = [op |-> "getCategoryById", id |-> id]]
    /\ LET results == ById(categories, id)
       IN IF results # {} THEN Finish(p, Success(Val(results))) ELSE Finish(p, ReturnNull)
    /\ UNCHANGED <<store, seq, now, pos, writes, asked>>

----------------------------------------------------------------------------
(* Menu items *)

ActiveCategory(id) == {c \in categories : c.id = id /\ c.is_active}

createMenuItem_Check(p, input) ==
    /\ Admit(p, [op |-> "createMenuItem", input |-> input])
    /\ IF ActiveCategory(input.category_id) = {}
       THEN Finish(p, Failure("Category not found or inactive"))
       ELSE Continue(p, "menu_insert")
    /\ UNCHANGED <<store, seq, now, pos, asked>>

\* db.insert(menuItemsTable): category_id references categories
createMenuItem_Insert(p) ==
    /\ pc[p] = "menu_insert"
    /\ LET input == req[p].input
           row == [id |-> seq.menuItems + 1,
                   name |-> input.name,
                   price |-> ToNumeric(input.price),
                   category_id |-> input.category_id,
                   is_available |-> TRUE]
       IN /\ seq' = [seq EXCEPT !.menuItems = @ + 1]
          /\ IF input.category_id \in Ids(categories)
             THEN /\ menuItems' = menuItems \cup {row}
                  /\ Finish(p, Success(row))
             ELSE /\ Finish(p, Failure("persistence"))
                  /\ UNCHANGED menuItems
    /\ UNCHANGED <<users, categories, transactions, transactionItems,
                   now, pos, req, writes, asked>>

updateMenuItem_Check(p, input) ==
    /\ Admit(p, [op |-> "updateMenuItem", input |-> input])
    /\ IF ById(menuItems, input.id) = {}
       THEN Finish(p, Failure("Menu item not found"))
       ELSE Continue(p, IF Given(input.category_id) THEN "menu_category" ELSE "menu_update")
    /\ UNCHANGED <<store, seq, now, pos, asked>>

updateMenuItem_Category(p) ==
    /\ pc[p] = "menu_category"
    /\ IF ActiveCategory(Val(req[p].input.category_id)) = {}
       THEN Finish(p, Failure("Category not found or inactive"))
       ELSE Continue(p, "menu_update")
    /\ UNCHANGED <<store, seq, now, pos, req, writes, asked>>

\* An update that also rewrites the price on the lines already sold
updateMenuItem_Update_Cascade(p) ==
    /\ pc[p] = "menu_update"
    /\ LET input == req[p].input
           old == ById(menuItems, input.id)
           new == {[r EXCEPT
                      !.name = IF Given(input.name) THEN Val(input.name) ELSE @,
                      !.price = IF Given(input.price) THEN ToNumeric(Val(input.price)) ELSE @,
                      !.category_id = IF Given(input.category_id)
                                      THEN Val(input.category_id) ELSE @,
                      !.is_available = IF Given(input.is_available)
                                       THEN Val(input.is_available) ELSE @] : r \in old}
       IN IF Given(input.category_id) => Val(input.category_id) \in Ids(categories)
          THEN /\ menuItems' = (menuItems \ old) \cup new
               /\ transactionItems' =
                     {IF i.menu_item_id = input.id /\ Given(input.price)
                      THEN [i EXCEPT !.unit_price = ToNumeric(Val(input.price))]
                      ELSE i : i \in transactionItems}
               /\ Finish(p, Success(Val(new)))
          ELSE /\ Finish(p, Failure("persistence"))
               /\ UNCHANGED <<menuItems, transactionItems>>
    /\ UNCHANGED <<users, categories, transactions, seq, now, pos, req, writes, asked>>

updateMenuItem_Update(p) ==
    /\ pc[p] = "menu_update"
    /\ LET input == req[p].input
           old == ById(menuItems, input.id)
           new == {[r EXCEPT
                      !.name = IF Given(input.name) THEN Val(input.name) ELSE @,
                      !.price = IF Given(input.price) THEN ToNumeric(Val(input.price)) ELSE @,
                      !.category_id = IF Given(input.category_id)
                                      THEN Val(input.category_id) ELSE @,
                      !.is_available = IF Given(input.is_available)
                                       THEN Val(input.is_available) ELSE @] : r \in old}
       IN IF Given(input.category_id) => Val(input.category_id) \in Ids(categories)
          THEN /\ menuItems' = (menuItems \ old) \cup new
               /\ Finish(p, Success(Val(new)))
          ELSE /\ Finish(p, Failure("persistence"))
               /\ UNCHANGED menuItems
    /\ UNCHANGED <<users, categories, transactions, transactionItems,
                   seq, now, pos, req, writes, asked>>

deleteMenuItem_Check(p, id) ==
    /\ Admit(p, [op |-> "deleteMenuItem", id |-> id])
    /\ IF ById(menuItems, id) = {}
       THEN Finish(p, Failure("Menu item not found"))
       ELSE Continue(p, "menu_delete")
    /\ UNCHANGED <<store, seq, now, pos, asked>>

deleteMenuItem_Update(p) ==
    /\ pc[p] = "menu_delete"
    /\ LET old == ById(menuItems, req[p].id)
       IN menuItems' = (menuItems \ old) \cup {[r EXCEPT !.is_available = FALSE] : r \in old}
    /\ Finish(p, Success(TRUE))
    /\ UNCHANGED <<users, categories, transactions, transactionItems,
                   seq, now, pos, req, writes, asked>>

\* menuItemsTable innerJoin categoriesTable, available items of active categories
getMenuItems(p) ==
    /\ Idle(p)
    /\ req' = [req EXCEPT ![p] = [op |-> "getMenuItems"]]
    /\ Finish(p, Success(
          UNION {{[id |-> m.id, name |-> m.name, price |-> parseFloat(m.price),
                   category_id |-> m.category_id, is_available |-> m.is_available,
                   category |-> [name |-> c.name]] :
                      c \in {x \in categories : x.id = m.category_id /\ x.is_active}} :
                 m \in {x \in menuItems : x.is_available}}))
    /\ UNCHANGED <<store, seq, now, pos, writes, asked>>

getMenuItemById(p, id) ==
    /\ Idle(p)
    /\ req' = [req EXCEPT ![p] = [op |-> "getMenuItemById", id |-> id]]
    /\ LET results == ById(menuItems, id)
       IN IF results = {} THEN Finish(p, ReturnNull)
          ELSE Finish(p, Success([Val(results) EXCEPT !.price = parseFloat(@)]))
    /\ UNCHANGED <<store, seq, now, pos, writes, asked>>

----------------------------------------------------------------------------
(* getTransactionById *)

RECURSIVE SumOver(_, _)
SumOver(rows, field) ==
    IF rows = {} THEN 0
    ELSE LET r == CHOOSE x \in rows : TRUE
         IN r[field] + SumOver(rows \ {r}, field)

\* transactionsTable innerJoin usersTable on cashier_id
JoinCashier(rows) ==
    UNION {{[transaction |-> t, cashier |-> [full_name |-> u.full_name]] :
               u \in {x \in users : x.id = t.cashier_id}} : t \in rows}

Hydrate(item) ==
    [id |-> item.id,
     transaction_id |-> item.transaction_id,
     menu_item_id |-> item.menu_item_id,
     quantity |-> item.quantity,
     unit_price |-> parseFloat(item.unit_price),
     total_price |-> parseFloat(item.total_price),
     notes |-> item.notes]

\* A lookup that throws when no row is found
getTransactionById_Select_Throws(p, id) ==
    /\ Idle(p)
    /\ req' = [req EXCEPT ![p] = [op |-> "getTransactionById", id |-> id]]
    /\ LET transactionResult == JoinCashier(ById(transactions, id))
       IN IF transactionResult = {}
          THEN Finish(p, Failure("Transaction not found"))
          ELSE /\ pc' = [pc EXCEPT ![p] = "byid_items"]
               /\ loc' = [loc EXCEPT ![p] = [read |-> "transaction",
                                             row |-> Val(transactionResult)]]
               /\ UNCHANGED <<tx, res>>
    /\ UNCHANGED <<store, seq, now, pos, writes, asked>>

getTransactionById_Select(p, id) ==
    /\ Idle(p)
    /\ req' = [req EXCEPT ![p] = [op |-> "getTransactionById", id |-> id]]
    /\ LET transactionResult == JoinCashier(ById(transactions, id))
       IN IF transactionResult = {}
          THEN Finish(p, ReturnNull)
          ELSE /\ pc' = [pc EXCEPT ![p] = "byid_items"]
               /\ loc' = [loc EXCEPT ![p] = [read |-> "transaction",
                                             row |-> Val(transactionResult)]]
               /\ UNCHANGED <<tx, res>>
    /\ UNCHANGED <<store, seq, now, pos, writes, asked>>

\* The item query without its where clause
getTransactionById_Items_Unfiltered(p) ==
    /\ pc[p] = "byid_items"
    /\ Finish(p, Success([transaction |-> loc[p].row.transaction,
                          items |-> {Hydrate(i) : i \in transactionItems},
                          cashier |-> loc[p].row.cashier]))
    /\ UNCHANGED <<store, seq, now, pos, req, writes, asked>>

getTransactionById_Items(p) ==
    /\ pc[p] = "byid_items"
    /\ LET items == ItemsOf(transactionItems, req[p].id)
       IN Finish(p, Success([transaction |-> loc[p].row.transaction,
                             items |-> {Hydrate(i) : i \in items},
                             cashier |-> loc[p].row.cashier]))
    /\ UNCHANGED <<store, seq, now, pos, req, writes, asked>>

----------------------------------------------------------------------------
(* getTransactions, getTransactionsByDateRange, getTransactionsByCashier *)

Min(a, b) == IF a <= b THEN a ELSE b

\* orderBy(desc(column)): rows of equal value come in any order
RECURSIVE OrderByDesc(_, _)
OrderByDesc(rows, column) ==
    IF rows = {} THEN {<< >>}
    ELSE UNION {{<<r>> \o s : s \in OrderByDesc(rows \ {r}, column)} :
                  r \in {x \in rows :
                           \A y \in rows : x.transaction[column] >= y.transaction[column]}}

\* A page that is one row longer than asked
Paginate_OneMore(s, limit, offset) ==
    IF Given(limit) /\ Given(offset)
    THEN SubSeq(s, Val(offset) + 1, Min(Len(s), Val(offset) + Val(limit) + 1))
    ELSE IF Given(limit) THEN SubSeq(s, 1, Min(Len(s), Val(limit) + 1))
    ELSE s

\* baseQuery.limit(limit).offset(offset), baseQuery.limit(limit) or baseQuery
Paginate(s, limit, offset) ==
    IF Given(limit) /\ Given(offset)
    THEN SubSeq(s, Val(offset) + 1, Min(Len(s), Val(offset) + Val(limit)))
    ELSE IF Given(limit) THEN SubSeq(s, 1, Min(Len(s), Val(limit)))
    ELSE s

\* LIMIT and OFFSET must not be negative
Executes(limit, offset) ==
    /\ Given(limit) => Val(limit) >= 0
    /\ (Given(limit) /\ Given(offset)) => Val(offset) >= 0

\* allItems, read without a where clause, grouped by transaction_id
itemsByTransaction(id) ==
    {Hydrate(i) : i \in {x \in transactionItems : x.transaction_id = id}}

\* transactions.map(transaction => ({ ..., items, cashier }))
WithItems(rows) ==
    [k \in DOMAIN rows |->
        [transaction |-> rows[k].transaction,
         items |-> itemsByTransaction(rows[k].transaction.id),
         cashier |-> rows[k].cashier]]

\* The query for the headers: one of the orders the database may return
SelectTransactions(p, request, results) ==
    /\ Idle(p)
    /\ req' = [req EXCEPT ![p] = request]
    /\ \E rows \in results :
          IF Len(rows) = 0
          THEN Finish(p, Success(<< >>))
          ELSE /\ pc' = [pc EXCEPT ![p] = "list_items"]
               /\ loc' = [loc EXCEPT ![p] = [read |-> "transactions", rows |-> rows]]
               /\ UNCHANGED <<tx, res>>
    /\ UNCHANGED <<store, seq, now, pos, writes, asked>>

\* A result put together with every item row under every transaction
SelectItems_Ungrouped(p, op) ==
    /\ pc[p] = "list_items"
    /\ req[p].op = op
    /\ Finish(p, Success([k \in DOMAIN loc[p].rows |->
          [transaction |-> loc[p].rows[k].transaction,
           items |-> {Hydrate(i) : i \in transactionItems},
           cashier |-> loc[p].rows[k].cashier]]))
    /\ req' = [req EXCEPT ![p] =
                  [f \in DOMAIN req[p] \cup {"joined"} |->
                      IF f = "joined" THEN Ids(transactions) ELSE req[p][f]]]
    /\ UNCHANGED <<store, seq, now, pos, writes, asked>>

\* The query for the items, and the result put together.  The request keeps,
\* for the properties only, the ids that were committed when this query ran
\* (joined); no handler reads it.
SelectItems(p, op) ==
    /\ pc[p] = "list_items"
    /\ req[p].op = op
    /\ Finish(p, Success(WithItems(loc[p].rows)))
    /\ req' = [req EXCEPT ![p] =
                  [f \in DOMAIN req[p] \cup {"joined"} |->
                      IF f = "joined" THEN Ids(transactions) ELSE req[p][f]]]
    /\ UNCHANGED <<store, seq, now, pos, writes, asked>>

\* The request keeps, for the properties only, the ids that were committed when
\* the header query ran (seen); no handler reads it.
getTransactions_Select(p, limit, offset) ==
    IF Executes(limit, offset)
    THEN SelectTransactions(p,
            [op |-> "getTransactions", limit |-> limit, offset |-> offset,
             seen |-> Ids(transactions)],
            {Paginate(s, limit, offset) :
                s \in OrderByDesc(JoinCashier(transactions), "created_at")})
    ELSE /\ Idle(p)
         /\ req' = [req EXCEPT ![p] =
                       [op |-> "getTransactions", limit |-> limit, offset |-> offset,
                        seen |-> Ids(transactions)]]
         /\ Finish(p, Failure("persistence"))
         /\ UNCHANGED <<store, seq, now, pos, writes, asked>>

getTransactions_Items(p) == SelectItems(p, "getTransactions")

\* The range without its last instant
getTransactionsByDateRange_Select_Exclusive(p, startDate, endDate) ==
    SelectTransactions(p,
        [op |-> "getTransactionsByDateRange", startDate |-> startDate, endDate |-> endDate],
        OrderByDesc(JoinCashier({t \in transactions :
                                    /\ t.transaction_date >= startDate
                                    /\ t.transaction_date < endDate}),
                    "transaction_date"))

getTransactionsByDateRange_Select(p, startDate, endDate) ==
    SelectTransactions(p,
        [op |-> "getTransactionsByDateRange", startDate |-> startDate, endDate |-> endDate],
        OrderByDesc(JoinCashier({t \in transactions :
                                    /\ t.transaction_date >= startDate
                                    /\ t.transaction_date <= endDate}),
                    "transaction_date"))

getTransactionsByDateRange_Items(p) == SelectItems(p, "getTransactionsByDateRange")

\* The query without its where clause
getTransactionsByCashier_Select_Everyone(p, cashierId) ==
    SelectTransactions(p,
        [op |-> "getTransactionsByCashier", cashierId |-> cashierId],
        OrderByDesc(JoinCashier(transactions), "transaction_date"))

getTransactionsByCashier_Select(p, cashierId) ==
    SelectTransactions(p,
        [op |-> "getTransactionsByCashier", cashierId |-> cashierId],
        OrderByDesc(JoinCashier({t \in transactions : t.cashier_id = cashierId}),
                    "transaction_date"))

getTransactionsByCashier_Items(p) == SelectItems(p, "getTransactionsByCashier")

----------------------------------------------------------------------------
(* getDailySalesReport *)

TopLimit == 10

startOfDay(date) == date - (date % DayLen)

\* A day that runs up to and including the next midnight
endOfDay_NextMidnight(date) == startOfDay(date) + DayLen

endOfDay(date) == startOfDay(date) + DayLen - 1

InDay(date) ==
    {t \in transactions : /\ t.transaction_date >= startOfDay(date)
                          /\ t.transaction_date <= endOfDay(date)}

\* number / number; 0 when there are no transactions
averageTransaction(totalSales, totalTransactions) ==
    IF totalTransactions > 0
    THEN [num |-> totalSales, den |-> totalTransactions]
    ELSE [num |-> 0, den |-> 1]

\* A join that leaves out the items that are no longer available
SoldRows_AvailableOnly(date) ==
    {i \in transactionItems :
        /\ i.transaction_id \in Ids(InDay(date))
        /\ i.menu_item_id \in Ids({m \in menuItems : m.is_available})}

\* transaction_items join transactions join menu_items, grouped by menu item
SoldRows(date) ==
    {i \in transactionItems :
        /\ i.transaction_id \in Ids(InDay(date))
        /\ i.menu_item_id \in Ids(menuItems)}

TopSellingGroups(date) ==
    {[name |-> m.name,
      quantity |-> SumOver({i \in SoldRows(date) : i.menu_item_id = m.id}, "quantity"),
      revenue |-> parseFloat(SumOver({i \in SoldRows(date) : i.menu_item_id = m.id},
                                     "total_price")),
      menu_item_id |-> m.id] :
        m \in {x \in menuItems : \E i \in SoldRows(date) : i.menu_item_id = x.id}}

\* The groups with the smallest quantity first
RECURSIVE Orderings_Ascending(_)
Orderings_Ascending(groups) ==
    IF groups = {} THEN {<< >>}
    ELSE UNION {{<<g>> \o s : s \in Orderings_Ascending(groups \ {g})} :
                  g \in {x \in groups : \A y \in groups : x.quantity <= y.quantity}}

\* orderBy(desc(sum(quantity))): groups of equal quantity come in any order
RECURSIVE Orderings(_)
Orderings(groups) ==
    IF groups = {} THEN {<< >>}
    ELSE UNION {{<<g>> \o s : s \in Orderings(groups \ {g})} :
                  g \in {x \in groups : \A y \in groups : x.quantity >= y.quantity}}

Limit(s, n) == IF Len(s) <= n THEN s ELSE SubSeq(s, 1, n)

TopSellingItems(date) ==
    {[k \in DOMAIN Limit(s, TopLimit) |->
        [name |-> s[k].name, quantity |-> s[k].quantity, revenue |-> s[k].revenue]] :
        s \in Orderings(TopSellingGroups(date))}

getDailySalesReport_Totals(p, date) ==
    /\ Idle(p)
    /\ req' = [req EXCEPT ![p] = [op |-> "getDailySalesReport", date |-> date]]
    /\ LET totalSales == parseFloat(SumOver(InDay(date), "total_amount"))
           totalTransactions == Cardinality(InDay(date))
       IN loc' = [loc EXCEPT ![p] =
                     [read |-> "dailyTotals",
                      totalSales |-> totalSales,
                      totalTransactions |-> totalTransactions,
                      averageTransaction |->
                          averageTransaction(totalSales, totalTransactions)]]
    /\ pc' = [pc EXCEPT ![p] = "report_top"]
    /\ UNCHANGED <<store, seq, now, pos, tx, res, writes, asked>>

getDailySalesReport_TopSelling(p) ==
    /\ pc[p] = "report_top"
    /\ \E top \in TopSellingItems(req[p].date) :
          Finish(p, Success([totalSales |-> loc[p].totalSales,
                             totalTransactions |-> loc[p].totalTransactions,
                             averageTransaction |-> loc[p].averageTransaction,
                             topSellingItems |-> top]))
    /\ UNCHANGED <<store, seq, now, pos, req, writes, asked>>

----------------------------------------------------------------------------
(* The running system *)

SeededUsers ==
    {[id |-> 1, username |-> "siti", password |-> "rahasia", role |-> "KASIR",
      full_name |-> "Siti Aminah", is_active |-> TRUE]}

SeededCategories == {[id |-> 1, name |-> "Minuman", is_active |-> TRUE]}

SeededMenuItems ==
    {[id |-> 1, name |-> "Kopi", price |-> 15500, category_id |-> 1, is_available |-> TRUE],
     [id |-> 2, name |-> "Teh", price |-> 25000, category_id |-> 1, is_available |-> TRUE]}

\* A shop in service: one cashier, one category, two items, no sale yet.  The
\* default admin is missing: start() goes on to listen when its
\* initializeDefaultAdmin call fails.
InitStore ==
    /\ users = SeededUsers
    /\ categories = SeededCategories
    /\ menuItems = SeededMenuItems
    /\ transactions = {}
    /\ transactionItems = {}
    /\ seq = [users |-> 1, categories |-> 1, menuItems |-> 2, transactions |-> 0, items |-> 0]

\* The PosSystem component as it mounts: empty cart, nothing entered, and no
\* createTransaction request in flight (sent)
InitialPos ==
    [cart |-> << >>, paymentReceived |-> 0, discount |-> 0,
     isProcessing |-> FALSE, error |-> "", sent |-> {}]

InitWorkers ==
    /\ pos = InitialPos
    /\ pc = [p \in Procs |-> "idle"]
    /\ req = [p \in Procs |-> NoReq]
    /\ tx = [p \in Procs |-> NoTx]
    /\ res = [p \in Procs |-> NoRes]
    /\ loc = [p \in Procs |-> NoLoc]
    /\ writes = 0
    /\ asked = << >>

Init ==
    /\ InitStore
    /\ InitWorkers
    /\ now = 0

Line(m, q, price) == [menu_item_id |-> m, quantity |-> q, unit_price |-> price, notes |-> ""]

Sale(items, subtotal, total, paid, cashier) ==
    [customer_name |-> "", customer_phone |-> "", items |-> items,
     subtotal |-> subtotal, tax_amount |-> 0, discount_amount |-> 0,
     total_amount |-> total, payment_method |-> "CASH", payment_received |-> paid,
     notes |-> "", cashier_id |-> cashier]

\* Requests the terminals send
TxInputs ==
    {Sale(<<Line(1, 2000, 15500), Line(2, 1000, 25000)>>, 56000, 56000, 60000, 1),
     Sale(<<Line(1, 1000, 15500)>>, 20000, 15500, 10000, 1),
     Sale(<<Line(1, 1000, 15500)>>, 15500, 15500, 15500, 9),
     Sale(<<Line(1, 1000, 15500), Line(9, 1000, 25000)>>, 40500, 40500, 50000, 1),
     Sale(<< >>, 15500, 15500, 20000, 1)}

TxIds == 1..(MaxWrites + 1)

Dates == 0..MaxClock

createTransaction(p, inputs) ==
    \/ Idle(p) /\ \E input \in inputs : createTransaction_Reject(p, input)
    \/ Idle(p) /\ \E input \in inputs : createTransaction_Begin(p, input)
    \/ createTransaction_InsertHeader(p)
    \/ createTransaction_InsertItems(p)
    \/ createTransaction_Commit(p)
    \/ createTransaction_Abort(p)

getTransactionById(p) ==
    \/ \E id \in TxIds : getTransactionById_Select(p, id)
    \/ getTransactionById_Items(p)

getDailySalesReport(p) ==
    \/ \E date \in Dates : getDailySalesReport_Totals(p, date)
    \/ getDailySalesReport_TopSelling(p)

\* Two terminals selling at once, one of them also reading sales back
NextTx ==
    \/ \E p \in Procs : createTransaction(p, TxInputs)
    \/ getTransactionById("w2")
    \/ \E p \in Procs : Respond(p)

SpecTx == Init /\ [][NextTx]_vars

\* Every shape of request the boundary can be sent: each field at, below and
\* above its limit, amounts in whole cents and in fractions of a cent
Quantities == {0 - Unit, 0, Unit \div 2, Unit, 3 * Unit}

UnitPrices == {0, 1004, 1005, 15500}

ItemLists ==
    {<< >>}
    \cup {<<Line(1, q, price)>> : q \in Quantities, price \in UnitPrices}
    \cup {<<Line(1, q, price), Line(2, Unit, 25000)>> : q \in Quantities, price \in UnitPrices}

SaleInputs ==
    {[customer_name |-> "", customer_phone |-> "", items |-> items,
      subtotal |-> subtotal, tax_amount |-> tax, discount_amount |-> discount,
      total_amount |-> total, payment_method |-> "CASH", payment_received |-> paid,
      notes |-> "", cashier_id |-> 1] :
        items \in ItemLists, subtotal \in {0, 15500, 56005}, tax \in {0 - Cent, 0, 1555},
        discount \in {0 - Cent, 0, 500}, total \in {0, 5005, 5008, 15500},
        paid \in {0, 10004, 20000}}

\* One request from one terminal, followed from the boundary to its response
NextInputs == createTransaction("w1", SaleInputs)

SpecInputs == Init /\ [][NextInputs]_vars

\* A terminal selling while the back office draws the daily report
NextReport ==
    \/ createTransaction("w1", TxInputs)
    \/ getDailySalesReport("w2")
    \/ \E p \in Procs : Respond(p)
    \/ Tick

SpecReport == Init /\ [][NextReport]_vars

\* A menu of eleven items, one more than a report lists
MenuNames == <<"Kopi", "Teh", "Susu", "Jus", "Roti", "Nasi", "Mie", "Sate", "Soto", "Bakso", "Es">>

LongMenu ==
    {[id |-> k, name |-> MenuNames[k], price |-> 10000, category_id |-> 1,
      is_available |-> TRUE] : k \in 1..Len(MenuNames)}

InitLongMenu ==
    /\ users = SeededUsers
    /\ categories = SeededCategories
    /\ menuItems = LongMenu
    /\ transactions = {}
    /\ transactionItems = {}
    /\ seq = [users |-> 1, categories |-> 1, menuItems |-> Len(MenuNames),
              transactions |-> 0, items |-> 0]
    /\ InitWorkers
    /\ now = 0

\* An order of every item of the menu: 11, 10, ... 4 of the first eight, one of
\* each of the last three; and an order of one more of the ninth
LongOrder ==
    [k \in 1..Len(MenuNames) |->
        Line(k, IF k <= 8 THEN (12 - k) * Unit ELSE Unit, 10000)]

TopInputs ==
    {Sale(LongOrder, 630000, 630000, 630000, 1),
     Sale(<<Line(9, Unit, 10000)>>, 10000, 10000, 10000, 1),
     Sale(<< >>, 10000, 10000, 10000, 1)}

\* A terminal selling from the long menu while two reports are drawn
NextTop ==
    \/ createTransaction("w1", TopInputs)
    \/ \E p \in Procs : getDailySalesReport(p)
    \/ \E p \in Procs : Respond(p)

SpecTop == InitLongMenu /\ [][NextTop]_vars

\* A shop with a second cashier
SecondCashier ==
    [id |-> 2, username |-> "budi", password |-> "sandi", role |-> "KASIR",
     full_name |-> "Budi Santoso", is_active |-> TRUE]

InitTwoCashiers ==
    /\ users = SeededUsers \cup {SecondCashier}
    /\ categories = SeededCategories
    /\ menuItems = SeededMenuItems
    /\ transactions = {}
    /\ transactionItems = {}
    /\ seq = [users |-> 2, categories |-> 1, menuItems |-> 2, transactions |-> 0, items |-> 0]
    /\ InitWorkers
    /\ now = 0

\* A sale by each cashier, and a request the boundary turns away
CashierInputs ==
    {Sale(<<Line(1, 2000, 15500), Line(2, 1000, 25000)>>, 56000, 56000, 60000, 1),
     Sale(<<Line(2, 1000, 25000)>>, 25000, 25000, 25000, 2),
     Sale(<< >>, 25000, 25000, 25000, 2)}

PageArgs ==
    {[limit |-> {}, offset |-> {}], [limit |-> {0}, offset |-> {}],
     [limit |-> {1}, offset |-> {}], [limit |-> {3}, offset |-> {}],
     [limit |-> {1}, offset |-> {0}], [limit |-> {1}, offset |-> {1}],
     [limit |-> {}, offset |-> {1}], [limit |-> {0 - 1}, offset |-> {}]}

CashierIds == {1, 2, 9}

getTransactions(p) ==
    \/ \E a \in PageArgs : getTransactions_Select(p, a.limit, a.offset)
    \/ getTransactions_Items(p)

getTransactionsByDateRange(p) ==
    \/ \E startDate, endDate \in Dates : getTransactionsByDateRange_Select(p, startDate, endDate)
    \/ getTransactionsByDateRange_Items(p)

getTransactionsByCashier(p) ==
    \/ \E cashierId \in CashierIds : getTransactionsByCashier_Select(p, cashierId)
    \/ getTransactionsByCashier_Items(p)

\* A terminal selling while two clients page through the transactions
NextPages ==
    \/ createTransaction("w1", CashierInputs)
    \/ \E p \in Procs : getTransactions(p)
    \/ \E p \in Procs : Respond(p)

SpecPages == InitTwoCashiers /\ [][NextPages]_vars

\* A terminal selling over the days while the back office looks sales up by
\* date and by cashier
NextLookup ==
    \/ createTransaction("w1", CashierInputs)
    \/ getTransactionsByDateRange("w2")
    \/ getTransactionsByCashier("w2")
    \/ \E p \in Procs : Respond(p)
    \/ Tick

SpecLookup == InitTwoCashiers /\ [][NextLookup]_vars

\* A terminal selling while a client lists the transactions in the three ways
NextLists ==
    \/ createTransaction("w1", CashierInputs)
    \/ getTransactions("w2")
    \/ getTransactionsByDateRange("w2")
    \/ getTransactionsByCashier("w2")
    \/ \E p \in Procs : Respond(p)

SpecLists == InitTwoCashiers /\ [][NextLists]_vars

----------------------------------------------------------------------------
(* The whole server: every route of appRouter that reads or writes the store *)

Opt(S) == {{}} \cup {{v} : v \in S}

LoginInputs ==
    [username : {"siti", "budi"}, password : {"rahasia"}]
        \cup [username : {"siti"}, password : {"salah"}]

CreateUserInputs ==
    [username : {"siti", "admin"}, password : {"rahasia"}, role : {"KASIR"},
     full_name : {"Budi Santoso"}]

CreateCategoryInputs == [name : {"Makanan"}]

UpdateCategoryInputs ==
    [id : {1}, name : Opt({"Kedai"}), is_active : Opt({FALSE})]
        \cup [id : {9}, name : {{"Kedai"}}, is_active : {{}}]

CategoryIds == {1, 2, 9}

CreateMenuItemInputs == [name : {"Roti"}, price : {12345}, category_id : {1, 9}]

UpdateMenuItemInputs ==
    [id : {1}, name : Opt({"Kopi Susu"}), price : Opt({17004}),
     category_id : {{}}, is_available : {{}}]
        \cup [id : {1}, name : {{}}, price : {{}},
              category_id : {{2}, {9}}, is_available : Opt({FALSE})]
        \cup [id : {9}, name : {{}}, price : {{17004}},
              category_id : {{}}, is_available : {{}}]

MenuItemIds == {1, 9}

accounts(p) ==
    \/ \E input \in LoginInputs : loginUser(p, input)
    \/ \E input \in CreateUserInputs : createUser_Check(p, input)
    \/ createUser_Insert(p)
    \/ initializeDefaultAdmin_Check(p)
    \/ initializeDefaultAdmin_Insert(p)

catalog(p) ==
    \/ \E input \in CreateCategoryInputs : createCategory(p, input)
    \/ \E input \in UpdateCategoryInputs : updateCategory(p, input)
    \/ \E id \in CategoryIds : deleteCategory(p, id)
    \/ \E input \in CreateMenuItemInputs : createMenuItem_Check(p, input)
    \/ createMenuItem_Insert(p)
    \/ \E input \in UpdateMenuItemInputs : updateMenuItem_Check(p, input)
    \/ updateMenuItem_Category(p)
    \/ updateMenuItem_Update(p)
    \/ \E id \in MenuItemIds : deleteMenuItem_Check(p, id)
    \/ deleteMenuItem_Update(p)

\* A terminal selling while the back office works on accounts, catalog and
\* reports, all within one tick of the clock
Next ==
    \/ createTransaction("w1", TxInputs)
    \/ getTransactionById("w1")
    \/ accounts("w2")
    \/ catalog("w2")
    \/ getDailySalesReport("w2")
    \/ \E p \in Procs : Respond(p)

Spec == Init /\ [][Next]_vars

\* Two clients working on the accounts at once
NextAccounts ==
    \/ \E p \in Procs : accounts(p)
    \/ \E p \in Procs : Respond(p)

SpecAccounts == Init /\ [][NextAccounts]_vars

\* An account that was deactivated in the table
InactiveCashier ==
    [id |-> 2, username |-> "joko", password |-> "kunci", role |-> "KASIR",
     full_name |-> "Joko Susilo", is_active |-> FALSE]

InitLogin ==
    /\ users = SeededUsers \cup {InactiveCashier}
    /\ categories = SeededCategories
    /\ menuItems = SeededMenuItems
    /\ transactions = {}
    /\ transactionItems = {}
    /\ seq = [users |-> 2, categories |-> 1, menuItems |-> 2, transactions |-> 0, items |-> 0]
    /\ InitWorkers
    /\ now = 0

\* Right and wrong passwords for an active, an inactive and an unknown name
LoginAttempts == [username : {"siti", "joko", "tamu"}, password : {"rahasia", "kunci"}]

NewUserInputs ==
    [username : {"tamu"}, password : {"kunci"}, role : {"KASIR"}, full_name : {"Tamu Baru"}]

\* Logins at two terminals while an account is being created
NextLogin ==
    \/ \E p \in Procs : \E input \in LoginAttempts : loginUser(p, input)
    \/ \E input \in NewUserInputs : createUser_Check("w2", input)
    \/ createUser_Insert("w2")
    \/ \E p \in Procs : Respond(p)
    \/ Tick

SpecLogin == InitLogin /\ [][NextLogin]_vars

catalogQueries(p) ==
    \/ getCategories(p)
    \/ \E id \in CategoryIds : getCategoryById(p, id)
    \/ getMenuItems(p)
    \/ \E id \in MenuItemIds : getMenuItemById(p, id)

\* Two back-office clients changing and reading the catalog at once
NextCatalog ==
    \/ \E p \in Procs : catalog(p)
    \/ \E p \in Procs : catalogQueries(p)
    \/ \E p \in Procs : Respond(p)

SpecCatalog == Init /\ [][NextCatalog]_vars

\* A terminal selling and reading the report while the back office changes
\* the catalog and reads the report too
NextHistory ==
    \/ createTransaction("w1", TxInputs)
    \/ getDailySalesReport("w1")
    \/ catalog("w2")
    \/ getDailySalesReport("w2")
    \/ \E p \in Procs : Respond(p)

SpecHistory == Init /\ [][NextHistory]_vars

----------------------------------------------------------------------------
(* The POS client: the cart and the payment dialog of PosSystem.  A quantity *)
(* of the cart is a number of thousandths like every quantity of a request. *)

\* Units of one item a cart line is taken up to
MaxQuantity == 3

server == <<users, categories, menuItems, transactions, transactionItems,
            seq, now, pc, req, tx, res, loc, writes, asked>>

\* The menu trpc.getMenuItems returned when the component mounted
LoadedMenu == {[id |-> m.id, price |-> parseFloat(m.price)] : m \in SeededMenuItems}

HasLine(cart, menuItemId) == \E k \in DOMAIN cart : cart[k].menuItem.id = menuItemId

Filter(cart, menuItemId) ==
    LET Other(line) == line.menuItem.id # menuItemId
    IN SelectSeq(cart, Other)

\* An addToCart that starts a new line every time
addToCart_AlwaysAppend(menuItem) ==
    /\ \A k \in DOMAIN pos.cart : pos.cart[k].quantity < MaxQuantity * Unit
    /\ Len(pos.cart) < Cardinality(LoadedMenu)
    /\ pos' = [pos EXCEPT !.cart = Append(pos.cart, [menuItem |-> menuItem, quantity |-> Unit])]
    /\ UNCHANGED server

addToCart(menuItem) ==
    /\ \A k \in DOMAIN pos.cart :
          pos.cart[k].menuItem.id = menuItem.id => pos.cart[k].quantity < MaxQuantity * Unit
    /\ pos' = [pos EXCEPT !.cart =
          IF HasLine(pos.cart, menuItem.id)
          THEN [k \in DOMAIN pos.cart |->
                   IF pos.cart[k].menuItem.id = menuItem.id
                   THEN [pos.cart[k] EXCEPT !.quantity = @ + Unit]
                   ELSE pos.cart[k]]
          ELSE Append(pos.cart, [menuItem |-> menuItem, quantity |-> Unit])]
    /\ UNCHANGED server

updateCartQuantity(menuItemId, quantity) ==
    /\ quantity <= MaxQuantity * Unit
    /\ pos' = [pos EXCEPT !.cart =
          IF quantity <= 0
          THEN Filter(pos.cart, menuItemId)
          ELSE [k \in DOMAIN pos.cart |->
                   IF pos.cart[k].menuItem.id = menuItemId
                   THEN [pos.cart[k] EXCEPT !.quantity = quantity]
                   ELSE pos.cart[k]]]
    /\ UNCHANGED server

removeFromCart(menuItemId) ==
    /\ pos' = [pos EXCEPT !.cart = Filter(pos.cart, menuItemId)]
    /\ UNCHANGED server

\* What clearCart leaves of the state p
Cleared(p) == [p EXCEPT !.cart = << >>, !.paymentReceived = 0, !.discount = 0, !.error = ""]

clearCart ==
    /\ pos' = Cleared(pos)
    /\ UNCHANGED server

setDiscount(value) ==
    /\ pos' = [pos EXCEPT !.discount = value]
    /\ UNCHANGED server

setPaymentReceived(value) ==
    /\ pos' = [pos EXCEPT !.paymentReceived = value]
    /\ UNCHANGED server

RECURSIVE subtotal(_)
subtotal(cart) ==
    IF cart = << >> THEN 0
    ELSE (Head(cart).menuItem.price * Head(cart).quantity) \div Unit + subtotal(Tail(cart))

\* subtotal * taxRate, taxRate = 0.1
taxAmount(cart) == subtotal(cart) \div 10

totalAmount(p) == subtotal(p.cart) + taxAmount(p.cart) - p.discount

transactionData(p) ==
    [customer_name |-> "", customer_phone |-> "",
     items |-> [k \in DOMAIN p.cart |->
                   [menu_item_id |-> p.cart[k].menuItem.id,
                    quantity |-> p.cart[k].quantity,
                    unit_price |-> p.cart[k].menuItem.price,
                    notes |-> ""]],
     subtotal |-> subtotal(p.cart),
     tax_amount |-> taxAmount(p.cart),
     discount_amount |-> p.discount,
     total_amount |-> totalAmount(p),
     payment_method |-> "CASH",
     payment_received |-> p.paymentReceived,
     notes |-> "",
     cashier_id |-> 1]

\* handleProcessPayment up to trpc.createTransaction.mutate
handleProcessPayment_Submit ==
    /\ ~pos.isProcessing
    /\ pos' = IF pos.cart = << >>
              THEN [pos EXCEPT !.error = "Keranjang kosong"]
              ELSE IF pos.paymentReceived < totalAmount(pos)
                   THEN [pos EXCEPT !.error = "Pembayaran tidak mencukupi"]
                   ELSE [pos EXCEPT !.isProcessing = TRUE, !.error = "",
                                    !.sent = {transactionData(pos)}]
    /\ UNCHANGED server

\* The request succeeded: clearCart, then finally
handleProcessPayment_Resolved ==
    /\ pos.sent # {}
    /\ pos' = [Cleared(pos) EXCEPT !.isProcessing = FALSE, !.sent = {}]
    /\ UNCHANGED server

\* The request failed: catch, then finally
handleProcessPayment_Rejected ==
    /\ pos.sent # {}
    /\ pos' = [pos EXCEPT !.error = "Transaksi gagal. Silakan coba lagi.",
                          !.isProcessing = FALSE, !.sent = {}]
    /\ UNCHANGED server

Discounts == {0, 5000}

Payments == {0, 20000, 100000}

\* A cashier at the terminal: the buttons of the menu, of the cart lines and of
\* the payment dialog
NextPos ==
    \/ \E menuItem \in LoadedMenu : addToCart(menuItem)
    \/ \E k \in DOMAIN pos.cart :
          updateCartQuantity(pos.cart[k].menuItem.id, pos.cart[k].quantity - Unit)
    \/ \E k \in DOMAIN pos.cart :
          updateCartQuantity(pos.cart[k].menuItem.id, pos.cart[k].quantity + Unit)
    \/ \E k \in DOMAIN pos.cart : removeFromCart(pos.cart[k].menuItem.id)
    \/ clearCart
    \/ \E value \in Discounts : setDiscount(value)
    \/ \E value \in Payments : setPaymentReceived(value)
    \/ handleProcessPayment_Submit
    \/ handleProcessPayment_Resolved
    \/ handleProcessPayment_Rejected

SpecPos == Init /\ [][NextPos]_vars

----------------------------------------------------------------------------
(* Claims *)

Sold(p) == pc[p] = "done" /\ req[p].op = "createTransaction" /\ res[p].status = "ok"

\* C1: in every state a reader can observe, also after a failed createTransaction
\* and while other calls are under way, a transaction header is visible exactly
\* when all N item rows of its request are: never a header with fewer items,
\* never an item without its header.
C1_AtomicUnit ==
    /\ \A t \in transactions :
          /\ t.id \in DOMAIN asked
          /\ Cardinality(ItemsOf(transactionItems, t.id)) = asked[t.id]
    /\ \A i \in transactionItems : i.transaction_id \in Ids(transactions)

\* A two-line sale is visible while the other terminal holds an uncommitted
\* header and its items.
C1_Witness ==
    /\ \E t \in transactions : asked[t.id] = 2
    /\ \E p \in Procs : pc[p] = "tx_commit" /\ tx[p].header # {} /\ tx[p].items # {}

C4_Commit(p) ==
    (pc[p] = "tx_commit" /\ pc'[p] = "done" /\ res'[p].status = "ok") =>
        LET h == res'[p].value
            lines == req[p].input.items
            new == transactionItems' \ transactionItems
        IN /\ h.id \notin Ids(transactions)
           /\ transactions' = transactions \cup {h}
           /\ transactionItems \subseteq transactionItems'
           /\ Cardinality(new) = Len(lines)
           /\ \A i \in new : i.transaction_id = h.id
           /\ \A k \in 1..Len(lines) :
                 \E i \in new : /\ i.menu_item_id = lines[k].menu_item_id
                                /\ i.quantity * Unit = lines[k].quantity

C4_Read(p) ==
    (pc[p] = "done" /\ req[p].op = "getTransactionById" /\ ~res[p].null) =>
        LET r == res[p].value
            rows == {i \in transactionItems : i.transaction_id = req[p].id}
        IN /\ r.transaction \in transactions
           /\ r.transaction.id = req[p].id
           /\ Cardinality(r.items) = asked[req[p].id]
           /\ {i.id : i \in r.items} = {i.id : i \in rows}
           /\ \A i \in r.items : \E row \in rows :
                 /\ row.id = i.id
                 /\ row.transaction_id = i.transaction_id
                 /\ row.menu_item_id = i.menu_item_id
                 /\ row.quantity = i.quantity
                 /\ row.unit_price = i.unit_price
           /\ \E u \in users : /\ u.id = r.transaction.cashier_id
                               /\ u.full_name = r.cashier.full_name

BadReference(input) ==
    \/ input.cashier_id \notin Ids(users)
    \/ \E k \in 1..Len(input.items) : input.items[k].menu_item_id \notin Ids(menuItems)

C7_Fails(p) ==
    (pc[p] = "done" /\ req[p].op = "createTransaction"
        /\ createTransactionInputSchema(req[p].input) /\ BadReference(req[p].input))
    => res[p].status = "error"

C7_NothingKept(p) ==
    (pc[p] \in {"tx_header", "tx_items", "tx_commit"} /\ pc'[p] = "done"
        /\ res'[p].status = "error")
    => UNCHANGED <<transactions, transactionItems>>

\* C7: a createTransaction whose cashier_id or one of whose menu_item_id names
\* no existing row fails with an error and leaves transactions and
\* transaction_items as they were; a header inserted before the failing item
\* insert is not persisted.
C7_ReferenceFailureRollsBack ==
    /\ [](\A p \in Procs : C7_Fails(p))
    /\ [][\A p \in Procs : C7_NothingKept(p)]_vars

\* A sale failed on the menu item of its second line, after its header had
\* been inserted under an id that is now visible nowhere.
C7_Witness ==
    \E p \in Procs :
        /\ pc[p] = "done" /\ req[p].op = "createTransaction"
        /\ res[p].status = "error"
        /\ req[p].input.cashier_id \in Ids(users)
        /\ \E k \in 1..Len(req[p].input.items) :
              req[p].input.items[k].menu_item_id \notin Ids(menuItems)
        /\ \E id \in DOMAIN asked : id \notin Ids(transactions)

RECURSIVE SumTotalPrice(_)
SumTotalPrice(rows) ==
    IF rows = {} THEN 0
    ELSE LET r == CHOOSE x \in rows : TRUE
         IN r.total_price + SumTotalPrice(rows \ {r})

\* C2 (as claimed): the change_amount a successful createTransaction returns
\* and persists is payment_received minus total_amount exactly, be it of the
\* amounts supplied or of the amounts stored.
C2_ChangeIsDifference ==
    \A p \in Procs :
        Sold(p) =>
            /\ res[p].value \in transactions
            /\ \/ res[p].value.change_amount = changeAmount(req[p].input)
               \/ res[p].value.change_amount =
                      res[p].value.payment_received - res[p].value.total_amount

\* C3 (as claimed): every persisted item row has total_price = quantity *
\* unit_price.
C3_TotalPriceIsProduct ==
    \A i \in transactionItems : i.total_price = i.quantity * i.unit_price

Claimed_Invalid(input) ==
    \/ Len(input.items) = 0
    \/ \E k \in 1..Len(input.items) :
          \/ input.items[k].quantity <= 0
          \/ input.items[k].quantity % Unit # 0
          \/ input.items[k].unit_price <= 0
    \/ input.subtotal <= 0
    \/ input.total_amount <= 0
    \/ input.payment_received <= 0
    \/ input.tax_amount < 0
    \/ input.discount_amount < 0

\* C6: a create-transaction request with an empty items list, a quantity that
\* is not a positive integer, a unit_price <= 0, a subtotal, total_amount or
\* payment_received <= 0, or a tax_amount or discount_amount < 0 is rejected at
\* the boundary: the handler never starts, no id is drawn and no row is written.
C6_RejectedAtBoundary ==
    \A p \in Procs :
        (req[p].op = "createTransaction" /\ Claimed_Invalid(req[p].input)) =>
            /\ pc[p] = "done"
            /\ res[p] = Failure("validation")
            /\ tx[p] = NoTx
            /\ transactions = {} /\ transactionItems = {}
            /\ seq.transactions = 0 /\ seq.items = 0

\* A request with a fractional quantity, everything else in order, was turned
\* away.
C6_Witness ==
    \E p \in Procs :
        /\ pc[p] = "done" /\ res[p] = Failure("validation")
        /\ Len(req[p].input.items) = 1
        /\ req[p].input.items[1].quantity = Unit \div 2
        /\ req[p].input.items[1].unit_price > 0
        /\ req[p].input.subtotal > 0 /\ req[p].input.total_amount > 0
        /\ req[p].input.payment_received > 0
        /\ req[p].input.tax_amount >= 0 /\ req[p].input.discount_amount >= 0

\* C8 (as claimed): the header fields are stored and returned exactly as
\* supplied.
C8_StoredAsSupplied ==
    \A p \in Procs : Sold(p) =>
        /\ res[p].value.subtotal = req[p].input.subtotal
        /\ res[p].value.tax_amount = req[p].input.tax_amount
        /\ res[p].value.discount_amount = req[p].input.discount_amount
        /\ res[p].value.total_amount = req[p].input.total_amount

Nearest(stored, supplied) ==
    /\ stored % Cent = 0
    /\ 2 * Abs(stored - supplied) <= Cent
    /\ (2 * Abs(stored - supplied) = Cent => Abs(stored) > Abs(supplied))

\* C8 (amended): a valid input is never turned away for the relation between
\* its header amounts and its lines, and a successful createTransaction stores
\* and returns subtotal, tax_amount, discount_amount and total_amount as
\* supplied, each rounded to the nearest cent (half away from zero).
C8_StoredAsSuppliedToTheCent ==
    \A p \in Procs :
        /\ (pc[p] = "done" /\ req[p].op = "createTransaction"
                /\ ~Claimed_Invalid(req[p].input)) => res[p] # Failure("validation")
        /\ Sold(p) =>
            /\ res[p].value \in transactions
            /\ Nearest(res[p].value.subtotal, req[p].input.subtotal)
            /\ Nearest(res[p].value.tax_amount, req[p].input.tax_amount)
            /\ Nearest(res[p].value.discount_amount, req[p].input.discount_amount)
            /\ Nearest(res[p].value.total_amount, req[p].input.total_amount)

\* A sale whose subtotal is not the sum of its lines and whose total is not
\* subtotal + tax - discount was stored, its total rounded from 5.005 to 5.01.
C8_Witness ==
    \E p \in Procs :
        /\ Sold(p)
        /\ req[p].input.subtotal # SumLines(req[p].input.items, Len(req[p].input.items))
        /\ req[p].input.total_amount #
              req[p].input.subtotal + req[p].input.tax_amount - req[p].input.discount_amount
        /\ req[p].input.total_amount = 5005
        /\ res[p].value.total_amount = 5010

\* C9 (as claimed): each persisted transaction's subtotal is the sum of the
\* total_price of its item rows.
C9_SubtotalIsSum ==
    \A t \in transactions : t.subtotal = SumTotalPrice(ItemsOf(transactionItems, t.id))

Consistent(input) ==
    /\ input.subtotal % Cent = 0
    /\ \A k \in 1..Len(input.items) : input.items[k].unit_price % Cent = 0
    /\ input.subtotal = SumLines(input.items, Len(input.items))

\* C9 (amended): a persisted transaction's subtotal is the sum of the
\* total_price of its item rows whenever its request supplied, in whole cents,
\* a subtotal equal to the sum of quantity * unit_price over its lines; the
\* engine does not enforce this for other requests.
C9_SubtotalIsSumWhenSupplied ==
    \A p \in Procs :
        (Sold(p) /\ Consistent(req[p].input)) =>
            LET t == res[p].value
            IN /\ t \in transactions
               /\ t.subtotal = SumTotalPrice(ItemsOf(transactionItems, t.id))

\* A two-line sale with a consistent subtotal is in the store.
C9_Witness ==
    \E p \in Procs :
        /\ Sold(p) /\ Consistent(req[p].input)
        /\ Len(req[p].input.items) = 2
        /\ res[p].value.subtotal = 56000

\* C5: a committed transaction is immutable: no step of any operation of the
\* server changes or removes a header or an item row once it is visible, and a
\* row that appears never takes the id of an earlier one.
C5_Immutable ==
    [][/\ transactions \subseteq transactions'
       /\ transactionItems \subseteq transactionItems'
       /\ \A t \in transactions' \ transactions : t.id \notin Ids(transactions)
       /\ \A i \in transactionItems' \ transactionItems : i.id \notin Ids(transactionItems)]_vars

\* The price of menu item 1 has been changed, and the line sold at the old
\* price still carries it.
C5_Witness ==
    /\ \E m \in menuItems : m.id = 1 /\ m.price = 17000
    /\ \E i \in transactionItems : i.menu_item_id = 1 /\ i.unit_price = 15500
    /\ \E p \in Procs : /\ pc[p] = "done" /\ req[p].op = "updateMenuItem"
                        /\ res[p].status = "ok"

RECURSIVE Total(_, _)
Total(rows, field) ==
    IF rows = {} THEN 0
    ELSE LET r == CHOOSE x \in rows : TRUE
         IN r[field] + Total(rows \ {r}, field)

\* The transactions dated on the calendar day of date
OnDayOf(date) == {t \in transactions : t.transaction_date \div DayLen = date \div DayLen}

Reported(p) == pc[p] = "done" /\ req[p].op = "getDailySalesReport" /\ res[p].status = "ok"

\* C10 (as claimed): a report that counts no transaction has totalSales 0,
\* averageTransaction 0 and no topSellingItems; otherwise averageTransaction
\* is totalSales / totalTransactions.
C10_EmptyDayEmptyReport ==
    \A p \in Procs : Reported(p) =>
        LET r == res[p].value
        IN IF r.totalTransactions = 0
           THEN r.totalSales = 0 /\ r.averageTransaction.num = 0 /\ r.topSellingItems = << >>
           ELSE r.averageTransaction = [num |-> r.totalSales, den |-> r.totalTransactions]

C10_Totals(p) ==
    (pc[p] = "idle" /\ pc'[p] = "report_top") =>
        LET W == OnDayOf(req'[p].date)
            t == loc'[p]
        IN /\ t.totalSales = Total(W, "total_amount")
           /\ t.totalTransactions = Cardinality(W)
           /\ IF W = {} THEN t.totalSales = 0 /\ t.averageTransaction.num = 0
              ELSE t.averageTransaction = [num |-> t.totalSales, den |-> Cardinality(W)]

C10_TopSelling(p) ==
    (pc[p] = "report_top" /\ pc'[p] = "done" /\ res'[p].status = "ok") =>
        LET W == OnDayOf(req[p].date)
            sold == {i \in transactionItems : i.transaction_id \in Ids(W)}
            r == res'[p].value
        IN /\ r.totalSales = loc[p].totalSales
           /\ r.totalTransactions = loc[p].totalTransactions
           /\ r.averageTransaction = loc[p].averageTransaction
           /\ Len(r.topSellingItems) = Cardinality({i.menu_item_id : i \in sold})
           /\ \A k \in DOMAIN r.topSellingItems :
                 \E m \in menuItems :
                    /\ m.name = r.topSellingItems[k].name
                    /\ r.topSellingItems[k].quantity =
                          Total({i \in sold : i.menu_item_id = m.id}, "quantity")

\* C10 (amended): totalSales, totalTransactions and averageTransaction are
\* computed by the first read over exactly the transactions dated on the
\* calendar day of date (sum of total_amount, count, and their quotient, or 0
\* with totalSales 0 when the count is 0); topSellingItems is computed by a
\* second read over the transactions dated on that day that are visible then,
\* so it is empty when none is, whatever the count of the first read; a
\* transaction dated on another day contributes to none of the four fields.
C10_ReportOverTheDay ==
    /\ [][\A p \in Procs : C10_Totals(p)]_vars
    /\ [][\A p \in Procs : C10_TopSelling(p)]_vars

\* A report that counts the one sale of its day and leaves out the sale of
\* another day.
C10_Witness ==
    \E p \in Procs :
        /\ Reported(p)
        /\ res[p].value.totalTransactions = 1
        /\ Len(res[p].value.topSellingItems) >= 1
        /\ Cardinality(transactions) = 2
        /\ Cardinality(OnDayOf(req[p].date)) = 1

\* The item rows of the transactions dated on the calendar day of date
SoldOnDayOf(date) == {i \in transactionItems : i.transaction_id \in Ids(OnDayOf(date))}

\* The report of p counted every transaction now dated on its day, so that both
\* of its reads saw the store as it is now
SawAll(p) ==
    /\ Reported(p)
    /\ res[p].value.totalTransactions = Cardinality(OnDayOf(req[p].date))

\* C11 (as claimed): topSellingItems holds one entry per distinct menu item
\* sold within the day window.
C11_OneEntryPerItemSold ==
    \A p \in Procs : SawAll(p) =>
        Len(res[p].value.topSellingItems) =
            Cardinality({i.menu_item_id : i \in SoldOnDayOf(req[p].date)})

C11_Step(p) ==
    (pc[p] = "report_top" /\ pc'[p] = "done" /\ res'[p].status = "ok") =>
        LET sold == SoldOnDayOf(req[p].date)
            items == {i.menu_item_id : i \in sold}
            top == res'[p].value.topSellingItems
        IN /\ Len(top) = IF Cardinality(items) <= 10 THEN Cardinality(items) ELSE 10
           /\ \A k \in DOMAIN top :
                 \E m \in menuItems :
                    /\ m.id \in items
                    /\ top[k].name = m.name
                    /\ top[k].quantity = Total({i \in sold : i.menu_item_id = m.id}, "quantity")
                    /\ top[k].revenue = Total({i \in sold : i.menu_item_id = m.id}, "total_price")
           /\ \A j, k \in DOMAIN top : j # k => top[j].name # top[k].name
           /\ \A j, k \in DOMAIN top : j < k => top[j].quantity >= top[k].quantity

\* C11 (amended): topSellingItems holds one entry per distinct menu item sold
\* within the day window, up to 10 entries, each carrying the item's name, the
\* sum of quantity and the sum of total_price over all item rows of that menu
\* item across the transactions of the window; the entries are ordered by
\* summed quantity, non-increasing.
C11_EntriesPerItemSold == [][\A p \in Procs : C11_Step(p)]_vars

\* A report over two sales: the ninth item, sold once in each, is listed with
\* quantity 2 and revenue 20.00, after the eight items sold more often.
C11_Witness ==
    \E p \in Procs :
        /\ Reported(p)
        /\ Len(res[p].value.topSellingItems) = 10
        /\ res[p].value.topSellingItems[9] =
              [name |-> "Soto", quantity |-> 2, revenue |-> 20000]

\* C12 (as claimed): topSellingItems never has more than 10 entries, no omitted
\* item was sold more than a listed one, and the same store state always yields
\* the same list.
C12_SameStoreSameList ==
    \A p, q \in Procs :
        (SawAll(p) /\ SawAll(q) /\ req[p].date \div DayLen = req[q].date \div DayLen) =>
            /\ Len(res[p].value.topSellingItems) <= 10
            /\ res[p].value.topSellingItems = res[q].value.topSellingItems

Listed(p, op) == pc[p] = "done" /\ req[p].op = op /\ res[p].status = "ok"

\* The headers of a list, in its order
Headers(list) == [k \in DOMAIN list |-> list[k].transaction]

C13_Query(p) ==
    (pc[p] = "idle" /\ pc'[p] # "idle" /\ req'[p].op = "getTransactionsByDateRange") =>
        LET match == {t \in transactions :
                        t.transaction_date \in req'[p].startDate..req'[p].endDate}
        IN IF match = {}
           THEN pc'[p] = "done" /\ res'[p] = Success(<< >>)
           ELSE /\ pc'[p] = "list_items"
                /\ Len(loc'[p].rows) = Cardinality(match)
                /\ {loc'[p].rows[k].transaction : k \in DOMAIN loc'[p].rows} = match
                /\ \A j, k \in DOMAIN loc'[p].rows :
                      j < k => loc'[p].rows[j].transaction.transaction_date
                                  >= loc'[p].rows[k].transaction.transaction_date

C13_Result(p) ==
    (pc[p] = "list_items" /\ req[p].op = "getTransactionsByDateRange" /\ pc'[p] = "done") =>
        /\ res'[p].status = "ok"
        /\ Headers(res'[p].value) = Headers(loc[p].rows)

\* C13: getTransactionsByDateRange(start, end) returns exactly the transactions
\* with start <= transaction_date <= end, both bounds included and the instants
\* next to them excluded, newest first, and the empty list when none matches.
C13_DateRangeInclusive ==
    /\ [][\A p \in Procs : C13_Query(p)]_vars
    /\ [][\A p \in Procs : C13_Result(p)]_vars

\* A range of the single instant 1 returned the sale dated 1 and left out the
\* sale dated one instant away.
C13_Witness ==
    \E p \in Procs :
        /\ Listed(p, "getTransactionsByDateRange")
        /\ req[p].startDate = 1 /\ req[p].endDate = 1
        /\ Len(res[p].value) = 1
        /\ res[p].value[1].transaction.transaction_date = 1
        /\ \E t \in transactions : t.transaction_date \in {0, 2}

C14_Query(p) ==
    (pc[p] = "idle" /\ pc'[p] # "idle" /\ req'[p].op = "getTransactions"
        /\ req'[p].offset = {} /\ \A l \in req'[p].limit : l >= 0) =>
        LET total == Cardinality(transactions)
            rows == IF pc'[p] = "done" THEN << >> ELSE loc'[p].rows
            got == {rows[k].transaction : k \in DOMAIN rows}
        IN /\ pc'[p] = "done" => res'[p] = Success(<< >>)
           /\ Cardinality(got) = Len(rows)
           /\ got \subseteq transactions
           /\ req'[p].limit = {} => got = transactions
           /\ \A l \in req'[p].limit : Len(rows) = IF l <= total THEN l ELSE total

C14_Result(p) ==
    (pc[p] = "list_items" /\ req[p].op = "getTransactions" /\ pc'[p] = "done") =>
        /\ res'[p].status = "ok"
        /\ Headers(res'[p].value) = Headers(loc[p].rows)

\* C14: getTransactions() returns every committed transaction exactly once,
\* and getTransactions(limit), for a limit that is a count, returns exactly
\* min(limit, total) transactions, total being the number committed.
C14_AllOrFirstLimit ==
    /\ [][\A p \in Procs : C14_Query(p)]_vars
    /\ [][\A p \in Procs : C14_Result(p)]_vars

\* getTransactions(1) returned one of the two sales in the store, and a call
\* without arguments both.
C14_Witness ==
    \E p, q \in Procs :
        /\ Listed(p, "getTransactions") /\ req[p].limit = {1} /\ req[p].offset = {}
        /\ Len(res[p].value) = 1
        /\ Listed(q, "getTransactions") /\ req[q].limit = {} /\ req[q].offset = {}
        /\ Len(res[q].value) = 2
        /\ Cardinality(transactions) = 2

ListedIds(p) == {res[p].value[k].transaction.id : k \in DOMAIN res[p].value}

\* C15 (as claimed): for limit >= 1 and offset >= limit, the pages
\* getTransactions(limit, offset) and getTransactions(limit, 0), read from the
\* same store contents, have no transaction id in common, also when
\* transactions carry the same created_at.
C15_PagesDisjoint ==
    \A p, q \in Procs :
        (/\ Listed(p, "getTransactions") /\ Listed(q, "getTransactions")
         /\ req[p].seen = req[q].seen
         /\ req[p].limit = req[q].limit
         /\ \E l \in req[p].limit : l >= 1 /\ \E o \in req[p].offset : o >= l
         /\ req[q].offset = {0})
        => ListedIds(p) \cap ListedIds(q) = {}

\* C16 (as claimed): getTransactions returns transactions newest first by
\* created_at, those of equal created_at in an order their ids fix, so that two
\* calls with the same arguments on the same store contents return the same
\* sequence.
C16_SameCallSameSequence ==
    \A p, q \in Procs :
        (/\ Listed(p, "getTransactions") /\ Listed(q, "getTransactions")
         /\ req[p].seen = req[q].seen
         /\ req[p].limit = req[q].limit /\ req[p].offset = req[q].offset)
        => /\ Headers(res[p].value) = Headers(res[q].value)
           /\ \A j, k \in DOMAIN res[p].value :
                 j < k => res[p].value[j].transaction.created_at
                             >= res[p].value[k].transaction.created_at

C17_Query(p) ==
    (pc[p] = "idle" /\ pc'[p] # "idle" /\ req'[p].op = "getTransactionsByCashier") =>
        LET match == {t \in transactions : t.cashier_id = req'[p].cashierId}
        IN IF match = {}
           THEN pc'[p] = "done" /\ res'[p] = Success(<< >>)
           ELSE /\ pc'[p] = "list_items"
                /\ Len(loc'[p].rows) = Cardinality(match)
                /\ {loc'[p].rows[k].transaction : k \in DOMAIN loc'[p].rows} = match
                /\ \A k \in DOMAIN loc'[p].rows :
                      \E u \in users : /\ u.id = req'[p].cashierId
                                       /\ loc'[p].rows[k].cashier.full_name = u.full_name
                /\ \A j, k \in DOMAIN loc'[p].rows :
                      j < k => loc'[p].rows[j].transaction.transaction_date
                                  >= loc'[p].rows[k].transaction.transaction_date

C17_Result(p) ==
    (pc[p] = "list_items" /\ req[p].op = "getTransactionsByCashier" /\ pc'[p] = "done") =>
        /\ res'[p].status = "ok"
        /\ Headers(res'[p].value) = Headers(loc[p].rows)
        /\ \A k \in DOMAIN loc[p].rows : res'[p].value[k].cashier = loc[p].rows[k].cashier

\* C17: getTransactionsByCashier(cashierId) returns all and only the committed
\* transactions of that cashier, each with the cashier's full name, newest
\* first, and the empty list when the cashier has none or does not exist.
C17_OnlyThatCashier ==
    /\ [][\A p \in Procs : C17_Query(p)]_vars
    /\ [][\A p \in Procs : C17_Result(p)]_vars

\* The sales of the second cashier were listed, the sale of the first left out.
C17_Witness ==
    \E p \in Procs :
        /\ Listed(p, "getTransactionsByCashier")
        /\ req[p].cashierId = 2
        /\ Len(res[p].value) = 1
        /\ res[p].value[1].cashier.full_name = "Budi Santoso"
        /\ \E t \in transactions : t.cashier_id = 1

C18_Step(p) ==
    (pc[p] = "idle" /\ pc'[p] # "idle" /\ req'[p].op = "getTransactionById"
        /\ \A t \in transactions : t.id # req'[p].id) =>
        /\ pc'[p] = "done"
        /\ res'[p].status = "ok" /\ res'[p].null
        /\ UNCHANGED <<users, categories, menuItems, transactions, transactionItems, seq>>

\* C18: getTransactionById(id) for an id that no committed transaction has
\* returns the explicit absent value (null), raises no error and changes
\* nothing in the store.
C18_AbsentIsNull ==
    /\ [][\A p \in Procs : C18_Step(p)]_vars
    /\ [](\A p \in Procs :
             (pc[p] = "done" /\ req[p].op = "getTransactionById") => res[p].status = "ok")

\* A lookup of the id of a sale that is inserted but not committed returned
\* null.
C18_Witness ==
    \E p, q \in Procs :
        /\ pc[p] = "done" /\ req[p].op = "getTransactionById" /\ res[p].null
        /\ pc[q] = "tx_commit"
        /\ \E h \in tx[q].header : h.id = req[p].id

ManagementOps ==
    {"createCategory", "updateCategory", "deleteCategory", "createMenuItem",
     "updateMenuItem", "deleteMenuItem", "createUser", "getDailySalesReport"}

\* C19 (as claimed): a request made for a KASIR user for a catalog-management,
\* user-management or reporting operation is rejected at the boundary.  While
\* every account is a KASIR account, whoever calls is no administrator, so no
\* such operation may succeed.
C19_KasirCheckoutOnly ==
    (\A u \in users : u.role = "KASIR") =>
        \A p \in Procs :
            (pc[p] = "done" /\ req[p].op \in ManagementOps) => res[p].status = "error"

C20_Unique == \A u, v \in users : u.username = v.username => u = v

C20_Check(p) ==
    (pc[p] = "idle" /\ pc'[p] # "idle" /\ req'[p].op = "createUser"
        /\ \E u \in users : u.username = req'[p].input.username) =>
        /\ pc'[p] = "done"
        /\ res'[p] = Failure("Username already exists")
        /\ users' = users

C20_Insert(p) ==
    (pc[p] = "user_insert" /\ req[p].op = "createUser" /\ pc'[p] = "done") =>
        IF \E u \in users : u.username = req[p].input.username
        THEN res'[p].status = "error" /\ users' = users
        ELSE /\ res'[p].status = "ok"
             /\ Cardinality(users') = Cardinality(users) + 1
             /\ \E u \in users' \ users : u.username = req[p].input.username

\* C20: no two user rows ever share a username: createUser with a username that
\* exists fails with 'Username already exists' and adds no row, and of two
\* createUser calls for the same unused username that interleave between
\* check and insert at most one creates a row.
C20_UsernamesUnique ==
    /\ []C20_Unique
    /\ [][\A p \in Procs : C20_Check(p)]_vars
    /\ [][\A p \in Procs : C20_Insert(p)]_vars

\* Two createUser calls for the unused name admin both passed the check; one
\* created the row, the other failed at the insert.
C20_Witness ==
    \E p, q \in Procs :
        /\ pc[p] = "done" /\ req[p].op = "createUser" /\ res[p].status = "ok"
        /\ pc[q] = "done" /\ req[q].op = "createUser" /\ res[q] = Failure("persistence")
        /\ req[p].input.username = "admin" /\ req[q].input.username = "admin"
        /\ Cardinality({u \in users : u.username = "admin"}) = 1

\* C21 (as claimed): initializeDefaultAdmin never ends in an error, also when
\* it overlaps with another initializeDefaultAdmin call: while the only admin
\* row there may be is the one initializeDefaultAdmin itself writes, every
\* finished call has returned the new row or the null sentinel.
C21_SentinelNotError ==
    (\A u \in ByUsername("admin") : u.full_name = "System Administrator") =>
        \A p \in Procs :
            (pc[p] = "done" /\ req[p].op = "initializeDefaultAdmin") => res[p].status = "ok"

C22_Matches(input) ==
    {u \in users : u.username = input.username /\ u.is_active /\ u.password = input.password}

C22_Step(p) ==
    (pc[p] = "idle" /\ pc'[p] # "idle" /\ req'[p].op = "loginUser") =>
        LET input == req'[p].input
            named == {u \in users : u.username = input.username}
        IN /\ pc'[p] = "done"
           /\ UNCHANGED <<users, categories, menuItems, transactions, transactionItems, seq>>
           /\ res'[p].status = "ok" <=> C22_Matches(input) # {}
           /\ res'[p].status = "ok" =>
                 /\ DOMAIN res'[p].value = {"user", "token"}
                 /\ "password" \notin DOMAIN res'[p].value.user
                 /\ \E u \in C22_Matches(input) :
                       \A f \in DOMAIN res'[p].value.user : res'[p].value.user[f] = u[f]
           /\ named = {} => res'[p] = Failure("Invalid username or password")
           /\ (\E u \in named : ~u.is_active) => res'[p] = Failure("User account is inactive")
           /\ (\E u \in named : u.is_active /\ u.password # input.password) =>
                 res'[p] = Failure("Invalid username or password")

C30_ExistenceHidden ==
    \A p \in Procs :
        (pc[p] = "done" /\ req[p].op = "loginUser") =>
            \A u \in users :
                (u.username = req[p].input.username /\ u.password # req[p].input.password) =>
                    res[p] = loginUser_Response(users \ {u}, req[p].input, now)

C23_Starts(p, op) == pc[p] = "idle" /\ pc'[p] # "idle" /\ req'[p].op = op

C23_NeverRemoved ==
    /\ Ids(categories) \subseteq Ids(categories')
    /\ Ids(menuItems) \subseteq Ids(menuItems')

C23_Delete(p) ==
    /\ C23_Starts(p, "deleteCategory") =>
          /\ categories' = {IF c.id = req'[p].id THEN [c EXCEPT !.is_active = FALSE] ELSE c :
                               c \in categories}
          /\ menuItems' = menuItems
    /\ (pc[p] = "menu_delete" /\ pc'[p] = "done") =>
          /\ menuItems' = {IF m.id = req[p].id THEN [m EXCEPT !.is_available = FALSE] ELSE m :
                               m \in menuItems}
          /\ categories' = categories

C23_Read(p) ==
    /\ C23_Starts(p, "getCategories") =>
          res'[p] = Success({c \in categories : c.is_active})
    /\ C23_Starts(p, "getMenuItems") =>
          /\ res'[p].status = "ok"
          /\ {r.id : r \in res'[p].value} =
                {m.id : m \in {x \in menuItems :
                    /\ x.is_available
                    /\ \E c \in categories : c.id = x.category_id /\ c.is_active}}
    /\ C23_Starts(p, "getCategoryById") =>
          \A c \in categories : c.id = req'[p].id => res'[p] = Success(c)
    /\ C23_Starts(p, "getMenuItemById") =>
          \A m \in menuItems : m.id = req'[p].id =>
              /\ res'[p].status = "ok" /\ ~res'[p].null
              /\ res'[p].value.id = m.id
              /\ res'[p].value.is_available = m.is_available

\* C23: deleteCategory and deleteMenuItem only set is_active / is_available to
\* false and no operation removes a row, so the sets of category ids and menu
\* item ids only grow; getCategories omits a soft-deleted category, getMenuItems
\* omits a soft-deleted item and any item of an inactive category, and
\* getCategoryById and getMenuItemById still return the soft-deleted row.
C23_SoftDelete ==
    /\ [][C23_NeverRemoved]_vars
    /\ [][\A p \in Procs : C23_Delete(p)]_vars
    /\ [][\A p \in Procs : C23_Read(p)]_vars

\* One client has soft-deleted category 1 and the other reads it by id and
\* gets the inactive row.
C23_Witness ==
    \E p, q \in Procs :
        /\ pc[q] = "done" /\ req[q].op = "deleteCategory" /\ req[q].id = 1
        /\ res[q] = Success(TRUE)
        /\ pc[p] = "done" /\ req[p].op = "getCategoryById" /\ req[p].id = 1
        /\ res[p].status = "ok" /\ ~res[p].null /\ ~res[p].value.is_active

C24_Write(p) ==
    /\ (pc[p] = "menu_insert" /\ menuItems' # menuItems) =>
          ActiveCategory(req[p].input.category_id) # {}
    /\ (pc[p] = "menu_update" /\ menuItems' # menuItems /\ Given(req[p].input.category_id)) =>
          ActiveCategory(Val(req[p].input.category_id)) # {}

\* C24 (as claimed): whenever createMenuItem, or updateMenuItem with a
\* category_id, writes a menu item row, the referenced category exists and is
\* active at the time of the write - also when a deleteCategory ran between
\* the handler's category check and its write.
C24_CategoryActiveAtWrite == [][\A p \in Procs : C24_Write(p)]_vars

C25_Missed(p, r) ==
    /\ pc'[p] = "done"
    /\ res'[p] = r
    /\ UNCHANGED <<users, categories, menuItems, transactions, transactionItems>>

C25_Step(p) ==
    /\ (C23_Starts(p, "updateCategory") /\ ById(categories, req'[p].input.id) = {}) =>
          C25_Missed(p, Failure("Category not found"))
    /\ (C23_Starts(p, "deleteCategory") /\ ById(categories, req'[p].id) = {}) =>
          C25_Missed(p, Success(FALSE))
    /\ (C23_Starts(p, "updateMenuItem") /\ ById(menuItems, req'[p].input.id) = {}) =>
          C25_Missed(p, Failure("Menu item not found"))
    /\ (C23_Starts(p, "deleteMenuItem") /\ ById(menuItems, req'[p].id) = {}) =>
          C25_Missed(p, Failure("Menu item not found"))

\* C25: a catalog mutation aimed at an id that does not exist changes no stored
\* row and reports the miss: updateCategory, updateMenuItem and deleteMenuItem
\* fail with a 'not found' error, deleteCategory returns false.
C25_MissReported == [][\A p \in Procs : C25_Step(p)]_vars

\* deleteCategory of the unknown id 9 has returned false at one client and
\* a menu item mutation of the unknown id 9 has failed at the other.
C25_Witness ==
    \E p, q \in Procs :
        /\ pc[p] = "done" /\ req[p].op = "deleteCategory" /\ req[p].id = 9
        /\ res[p] = Success(FALSE)
        /\ pc[q] = "done" /\ req[q].op \in {"updateMenuItem", "deleteMenuItem"}
        /\ res[q] = Failure("Menu item not found")

\* C26: in every reachable state every transaction's cashier_id is the id of a
\* user, every transaction item's transaction_id the id of a transaction and
\* its menu_item_id the id of a menu item, and every menu item's category_id
\* the id of a category, active or not.
C26_ReferentialIntegrity ==
    /\ \A t \in transactions : t.cashier_id \in Ids(users)
    /\ \A i \in transactionItems :
          /\ i.transaction_id \in Ids(transactions)
          /\ i.menu_item_id \in Ids(menuItems)
    /\ \A m \in menuItems : m.category_id \in Ids(categories)

\* A sale is stored with its items and a sale naming a cashier that does not
\* exist has been refused.
C26_Witness ==
    /\ transactionItems # {}
    /\ \E p \in Procs :
          /\ pc[p] = "done" /\ req[p].op = "createTransaction"
          /\ res[p].status = "error"
          /\ req[p].input.cashier_id \notin Ids(users)

ListOps == {"getTransactions", "getTransactionsByDateRange", "getTransactionsByCashier"}

C27_Entry(e) ==
    /\ e.items = {Hydrate(i) : i \in ItemsOf(transactionItems, e.transaction.id)}
    /\ Cardinality(e.items) = asked[e.transaction.id]
    /\ \A i \in e.items : i.transaction_id = e.transaction.id

\* C27: every transaction that getTransactions, getTransactionsByDateRange or
\* getTransactionsByCashier has returned carries exactly the item rows whose
\* transaction_id is its id, all of them and no others, also when sales were
\* committed between the query for the headers and the query for the items.
C27_ItemsOfEachTransaction ==
    \A p \in Procs : \A op \in ListOps :
        Listed(p, op) => \A k \in DOMAIN res[p].value : C27_Entry(res[p].value[k])

\* getTransactions has returned the one sale it saw, with its items, although a
\* second sale was committed before its item query ran.
C27_Witness ==
    \E p \in Procs :
        /\ Listed(p, "getTransactions")
        /\ Len(res[p].value) = 1
        /\ "joined" \in DOMAIN req[p]
        /\ req[p].seen = {res[p].value[1].transaction.id}
        /\ req[p].joined # req[p].seen
        /\ res[p].value[1].items # {}

\* The entries of a list without their names
C28_Figures(top) == [k \in DOMAIN top |-> [quantity |-> top[k].quantity, revenue |-> top[k].revenue]]

\* What the store holds for the report of a date, names left out
C28_Outcomes(date) ==
    [totalSales |-> SumOver(InDay(date), "total_amount"),
     totalTransactions |-> Cardinality(InDay(date)),
     figures |-> {C28_Figures(top) : top \in TopSellingItems(date)}]

C28_CatalogStep ==
    (menuItems' # menuItems \/ categories' # categories) =>
        \A date \in Dates : C28_Outcomes(date)' = C28_Outcomes(date)

C28_Report(p) ==
    SawAll(p) =>
        LET r == res[p].value
            sold == SoldOnDayOf(req[p].date)
            items == {i.menu_item_id : i \in sold}
        IN /\ r.totalSales = Total(OnDayOf(req[p].date), "total_amount")
           /\ r.averageTransaction = averageTransaction(r.totalSales, r.totalTransactions)
           /\ Len(r.topSellingItems) = Cardinality(items)
           /\ \E f \in [DOMAIN r.topSellingItems -> items] :
                 /\ \A j, k \in DOMAIN r.topSellingItems : j # k => f[j] # f[k]
                 /\ \A k \in DOMAIN r.topSellingItems :
                       /\ r.topSellingItems[k].quantity =
                             Total({i \in sold : i.menu_item_id = f[k]}, "quantity")
                       /\ r.topSellingItems[k].revenue =
                             Total({i \in sold : i.menu_item_id = f[k]}, "total_price")

C28_Name(p) ==
    (pc[p] = "report_top" /\ pc'[p] = "done" /\ res'[p].status = "ok") =>
        \A k \in DOMAIN res'[p].value.topSellingItems :
            \E m \in menuItems :
                /\ m.name = res'[p].value.topSellingItems[k].name
                /\ \E i \in SoldOnDayOf(req[p].date) : i.menu_item_id = m.id

\* C28: for a fixed date the totalSales, totalTransactions, averageTransaction
\* and the per-item quantities and revenues of getDailySalesReport are what the
\* sales of the day alone determine: no catalog operation - soft-deleting a sold
\* item, deactivating its category, changing its price, renaming it - changes
\* them, items that are now unavailable are still listed, and the name of an
\* entry is the menu item's name when the report is read.
C28_HistoryKept ==
    /\ [][C28_CatalogStep]_vars
    /\ [](\A p \in Procs : C28_Report(p))
    /\ [][\A p \in Procs : C28_Name(p)]_vars

\* The same day reported before and after the sold item was renamed: the same
\* figures, and the later report lists the item under the name it has now.
C28_Witness ==
    \E p, q \in Procs :
        /\ SawAll(p) /\ SawAll(q) /\ p # q
        /\ req[p].date = req[q].date
        /\ res[p].value.topSellingItems # << >>
        /\ C28_Figures(res[p].value.topSellingItems) = C28_Figures(res[q].value.topSellingItems)
        /\ res[p].value.totalSales = res[q].value.totalSales
        /\ res[p].value.topSellingItems[1].name = "Kopi"
        /\ res[q].value.topSellingItems[1].name = "Kopi Susu"

C29_Cart ==
    /\ \A j, k \in DOMAIN pos.cart :
          pos.cart[j].menuItem.id = pos.cart[k].menuItem.id => j = k
    /\ \A k \in DOMAIN pos.cart : pos.cart[k].quantity >= Unit

C29_Sent ==
    \A r \in pos.sent :
        /\ Len(r.items) >= 1
        /\ \A k \in DOMAIN r.items : r.items[k].quantity >= Unit
        /\ r.total_amount = r.subtotal + r.subtotal \div 10 - r.discount_amount
        /\ r.payment_received >= r.total_amount

C29_Step ==
    /\ (pos.sent = {} /\ pos'.sent # {}) =>
          /\ pos.cart # << >>
          /\ pos.paymentReceived >= totalAmount(pos)
          /\ pos'.sent = {transactionData(pos)}
          /\ pos'.cart = pos.cart
    /\ (pos.sent # {} /\ pos'.sent = {}) =>
          IF pos'.error = ""
          THEN pos'.cart = << >> /\ pos'.paymentReceived = 0 /\ pos'.discount = 0
          ELSE pos'.cart = pos.cart

\* C29: the POS client submits a create-transaction request only when the cart
\* is non-empty and paymentReceived >= totalAmount = subtotal + 10% of subtotal
\* - discount; in every cart state each menu item has at most one line and
\* every line a quantity >= 1, so no request has an empty item list or a
\* non-positive quantity; a successful submission resets the cart and the
\* payment fields, a failed one leaves the cart as it was.
C29_ClientSubmits ==
    /\ [](C29_Cart /\ C29_Sent)
    /\ [][C29_Step]_vars

\* A submission of a cart of two lines, one of them of two units, has failed:
\* the cart is still there.
C29_Witness ==
    /\ pos.error = "Transaksi gagal. Silakan coba lagi."
    /\ pos.sent = {}
    /\ Len(pos.cart) = 2
    /\ \E k \in DOMAIN pos.cart : pos.cart[k].quantity = 2 * Unit

====
